---- MODULE Spec2Model ----
(***************************************************************************)
(* Drawing generation of the BlenderBIM add-on: CreateDrawing in           *)
(* blenderbim/bim/module/drawing/operator.py.                              *)
(*                                                                         *)
(* This part models generate_linework: the classification of the model's   *)
(* representation contexts into priority buckets, the bucket loops of the  *)
(* body pass and of the annotation pass, the camera pass, the geometry     *)
(* cache with its eviction of invalidated GUIDs, and the early return on   *)
(* a cached linework document.                                             *)
(***************************************************************************)
EXTENDS Integers, Sequences, FiniteSets, TLC

(***************************************************************************)
(* Bounds of the model.                                                    *)
(***************************************************************************)
\* Number of elements of the drawing (tool.Drawing.get_drawing_elements).
NumElements == 3
\* Number of edits the user makes to elements in one behaviour.
MaxEdits == 1

(***************************************************************************)
(* The IFC model: elements, the camera, representation contexts.           *)
(***************************************************************************)
Elements == 1..NumElements
\* self.camera_element: the drawing's own IfcAnnotation.
Camera == 0
\* A cache key with no entry.
NoEntry == -1

PlanViews == {"PLAN_VIEW", "REFLECTED_PLAN_VIEW"}
\* EPset_Drawing.TargetView values a drawing is created with.
DrawingTargetViews == {"PLAN_VIEW", "REFLECTED_PLAN_VIEW", "ELEVATION_VIEW", "MODEL_VIEW"}
\* IfcGeometricProjectionEnum values a subcontext may carry.
ContextTargetViews == DrawingTargetViews \cup {"SECTION_VIEW"}
ContextTypes == {"Plan", "Model", "Sketch"}
ContextIdentifiers == {"Body", "Facetation", "Annotation", "Axis"}

\* ifc.by_type("IfcGeometricRepresentationContext"): subcontexts and the
\* root contexts, which carry no identifier refinement and no target view.
SubContexts ==
    [sub : {TRUE}, type : ContextTypes, ident : ContextIdentifiers, tv : ContextTargetViews]
RootContexts ==
    [sub : {FALSE}, type : ContextTypes, ident : {"None"}, tv : {"None"}]
FileContexts == SubContexts \cup RootContexts

Ctx(type, ident, tv) == [sub |-> TRUE, type |-> type, ident |-> ident, tv |-> tv]
RootCtx(type) == [sub |-> FALSE, type |-> type, ident |-> "None", tv |-> "None"]

\* The sets of contexts in which an element of the model has a
\* representation (one representation per context).
RepChoices ==
    << {Ctx("Model", "Body", "MODEL_VIEW")},
       {Ctx("Plan", "Body", "PLAN_VIEW")},
       {Ctx("Plan", "Body", "PLAN_VIEW"), Ctx("Model", "Body", "MODEL_VIEW")},
       {Ctx("Model", "Body", "MODEL_VIEW"), Ctx("Plan", "Annotation", "PLAN_VIEW"),
        Ctx("Model", "Annotation", "MODEL_VIEW")},
       {Ctx("Plan", "Facetation", "MODEL_VIEW"), Ctx("Model", "Body", "ELEVATION_VIEW"),
        Ctx("Model", "Annotation", "MODEL_VIEW")},
       {Ctx("Model", "Axis", "MODEL_VIEW"), RootCtx("Model")},
       {Ctx("Plan", "Annotation", "MODEL_VIEW"), RootCtx("Plan")} >>

\* The models checked: for each k, element e has the representations of
\* choice k + e \div 2 (cyclically), so that a model holds one element of
\* one kind, two of the next, and so on: elements that share a bucket and
\* elements that do not.
ModelChoice(k) ==
    [e \in Elements |-> RepChoices[((k + (e \div 2)) % Len(RepChoices)) + 1]]
ModelChoices == {ModelChoice(k) : k \in 0..(Len(RepChoices) - 1)}

\* The elements are stored in the file by ascending or by descending id.
FileOrders == {"ascending", "descending"}

VARIABLES
    target_view,                \* EPset_Drawing.TargetView of the camera
    reps,                       \* element -> contexts it has a representation in
    file_order,                 \* the order of the elements in the IFC file
    geom,                       \* element -> version of its geometry in the model
    edited,                     \* elements changed since the last sync
    edits,                      \* number of edits made
    cache,                      \* IfcStore.get_cache(): GUID -> cached geometry
    svg_file,                   \* the linework document at svg_path, or NoFile
    pc,                         \* position in CreateDrawing.execute
    bucket,                     \* index of the context bucket of the running pass
    elements,                   \* the remaining working set of the running pass
    it_open,                    \* an iterator of the current bucket is being drained
    it_pending,                 \* products the open iterator has still to yield
    processed,                  \* elements yielded by the open iterator
    written,                    \* the calls of self.serialiser.write of this run
    invalidated_guids,          \* the GUIDs the sync of this run reported
    results,                    \* self.svg_buffer.get_value() of the last extraction
    prev_results,               \* the fragments of the extraction before this one
    returned,                   \* what the last call of generate_linework returned
    extracted                   \* the last call went past the early returns

\* merge_linework_and_add_metadata(root)
VARIABLES
    m_before,                   \* the fragments of root when the method is called
    m_root,                     \* the fragments of root, in document order
    m_pc,                       \* position in merge_linework_and_add_metadata
    joined_paths,               \* material name -> fragments, in order of insertion
    m_group,                    \* index of the entry of joined_paths in work
    polygons,                   \* the polygons collected of the group in work
    classes,                    \* the class tokens collected of the group in work
    merged_polygons             \* the union of the group in work

\* Spatial.get_purged_inner_holes_poly(union_geom, min_area)
VARIABLES
    union_geom,                 \* the geometry handed to the method
    p_pc,                       \* position in get_purged_inner_holes_poly
    new_poly                    \* the polygon the method returned

\* The Python process the operator runs in, and its runs
VARIABLES
    hash_seed,                  \* the seed of the string hashes of the process
    first_run                   \* the first of two runs: the serialiser's output, the tree left

\* generate_underlay, generate_linework, generate_annotation
VARIABLES
    has_layer,                  \* cprops.has_underlay, has_linework, has_annotation
    should_use_cache,           \* props.should_use_<layer-kind>_cache
    cache_document,             \* layer kind -> the cache document: 0 none, n the n-th written
    last_generate               \* what the last call of a generate method did

\* Spatial.get_converted_tolerance, get_union_shape_from_selected_objects
VARIABLES
    project_unit,               \* the Prefix of the LENGTHUNIT of the project
    tolerance_call,             \* the last call of get_converted_tolerance
    buffer_distance,            \* the distance the union was buffered by, 0 not yet
    union_min_area              \* the min_area the holes were purged with, 0 not yet

\* Spatial.contract_container, expand_container
VARIABLES
    contracted_containers,      \* props.contracted_containers, the list of ids
    container_call              \* the last call of one of the two methods

\* AddDrawingToSheet, AddScheduleToSheet, RemoveDrawingFromSheet
VARIABLES
    references                  \* the document references of the sheet

\* combine_svgs(context, underlay, linework, annotation)
VARIABLES
    underlay,                   \* the underlay document, or NoLayer
    linework,                   \* the linework document, or NoLayer
    annotation,                 \* the annotation document, or NoLayer
    outfile,                    \* what was written to the drawing's document
    underlay_png,               \* the raster image was copied next to the document
    c_pc,                       \* position in combine_svgs
    c_returned                  \* what combine_svgs returned

generate_vars == <<target_view, reps, file_order, geom, edited, edits, cache, svg_file, pc, bucket,
                   elements, it_open, it_pending, processed, written, invalidated_guids,
                   results, prev_results, returned, extracted>>
merge_vars == <<m_before, m_root, m_pc, joined_paths, m_group, polygons, classes,
                merged_polygons>>
purge_vars == <<union_geom, p_pc, new_poly>>
combine_vars == <<underlay, linework, annotation, outfile, underlay_png, c_pc, c_returned>>
layer_vars == <<has_layer, should_use_cache, cache_document, last_generate>>
tolerance_vars == <<project_unit, tolerance_call, buffer_distance, union_min_area>>
container_vars == <<contracted_containers, container_call>>
sheet_vars == <<references>>
other_vars == <<hash_seed, first_run, layer_vars, tolerance_vars, container_vars, sheet_vars>>
post_vars == <<merge_vars, purge_vars, combine_vars, other_vars>>

vars == <<generate_vars, post_vars>>

model_vars == <<target_view, reps, file_order>>
pass_vars == <<bucket, elements, it_open, it_pending, processed>>

NoFile == [exists |-> FALSE, frags |-> <<>>]

\* tool.Drawing.get_drawing_elements(self.camera_element)
drawing_elements == Elements

Reverse(s) == [i \in 1..Len(s) |-> s[Len(s) + 1 - i]]

(***************************************************************************)
(* Classification of the representation contexts (lines 367-407).  Each    *)
(* bucket is the set of contexts that reach its append, under the          *)
(* conditions of the branches leading there.                               *)
(***************************************************************************)
plan_body_target_contexts(tv) ==
    {c \in FileContexts : c.sub /\ c.type = "Plan"
        /\ c.ident \in {"Body", "Facetation"} /\ c.tv = tv}

\* The MODEL_VIEW branch as an "if" of its own instead of an "elif".
plan_body_model_contextsNoElif(tv) ==
    {c \in FileContexts : c.sub /\ c.type = "Plan"
        /\ c.ident \in {"Body", "Facetation"} /\ c.tv = "MODEL_VIEW"}

plan_body_model_contexts(tv) ==
    {c \in FileContexts : c.sub /\ c.type = "Plan"
        /\ c.ident \in {"Body", "Facetation"} /\ c.tv # tv /\ c.tv = "MODEL_VIEW"}

plan_annotation_target_contexts(tv) ==
    {c \in FileContexts : c.sub /\ c.type = "Plan"
        /\ c.ident \notin {"Body", "Facetation"} /\ c.ident = "Annotation" /\ c.tv = tv}

plan_annotation_model_contexts(tv) ==
    {c \in FileContexts : c.sub /\ c.type = "Plan"
        /\ c.ident \notin {"Body", "Facetation"} /\ c.ident = "Annotation"
        /\ c.tv # tv /\ c.tv = "MODEL_VIEW"}

model_body_target_contexts(tv) ==
    {c \in FileContexts : c.sub /\ c.type # "Plan" /\ c.type = "Model"
        /\ c.ident \in {"Body", "Facetation"} /\ c.tv = tv}

model_body_model_contexts(tv) ==
    {c \in FileContexts : c.sub /\ c.type # "Plan" /\ c.type = "Model"
        /\ c.ident \in {"Body", "Facetation"} /\ c.tv # tv /\ c.tv = "MODEL_VIEW"}
    \cup {c \in FileContexts : ~c.sub /\ c.type = "Model"}

model_annotation_target_contexts(tv) ==
    {c \in FileContexts : c.sub /\ c.type # "Plan" /\ c.type = "Model"
        /\ c.ident \notin {"Body", "Facetation"} /\ c.ident = "Annotation" /\ c.tv = tv}

model_annotation_model_contexts(tv) ==
    {c \in FileContexts : c.sub /\ c.type # "Plan" /\ c.type = "Model"
        /\ c.ident \notin {"Body", "Facetation"} /\ c.ident = "Annotation"
        /\ c.tv # tv /\ c.tv = "MODEL_VIEW"}

\* The eight lists, in the order they are declared.
AllBuckets(tv) ==
    << plan_body_target_contexts(tv), plan_body_model_contexts(tv),
       model_body_target_contexts(tv), model_body_model_contexts(tv),
       plan_annotation_target_contexts(tv), plan_annotation_model_contexts(tv),
       model_annotation_target_contexts(tv), model_annotation_model_contexts(tv) >>

\* The body list with the Model buckets ahead of the Plan buckets.
body_contextsModelFirst(tv) ==
    IF tv \in {"PLAN_VIEW", "REFLECTED_PLAN_VIEW"}
    THEN << model_body_target_contexts(tv), model_body_model_contexts(tv),
            plan_body_target_contexts(tv), plan_body_model_contexts(tv) >>
    ELSE << model_body_target_contexts(tv), model_body_model_contexts(tv) >>

\* The body list without the MODEL_VIEW fallback of the Model contexts.
body_contextsNoFallback(tv) ==
    IF tv \in {"PLAN_VIEW", "REFLECTED_PLAN_VIEW"}
    THEN << plan_body_target_contexts(tv), plan_body_model_contexts(tv),
            model_body_target_contexts(tv) >>
    ELSE << model_body_target_contexts(tv) >>

\* Lines 409-421.
body_contexts(tv) ==
    IF tv \in {"PLAN_VIEW", "REFLECTED_PLAN_VIEW"}
    THEN << plan_body_target_contexts(tv), plan_body_model_contexts(tv),
            model_body_target_contexts(tv), model_body_model_contexts(tv) >>
    ELSE << model_body_target_contexts(tv), model_body_model_contexts(tv) >>

\* The annotation list of the plan views, taken for every target view.
annotation_contextsAlwaysPlan(tv) ==
    << plan_annotation_target_contexts(tv), plan_annotation_model_contexts(tv),
       model_annotation_target_contexts(tv), model_annotation_model_contexts(tv) >>

\* Lines 423-435.
annotation_contexts(tv) ==
    IF tv \in {"PLAN_VIEW", "REFLECTED_PLAN_VIEW"}
    THEN << plan_annotation_target_contexts(tv), plan_annotation_model_contexts(tv),
            model_annotation_target_contexts(tv), model_annotation_model_contexts(tv) >>
    ELSE << model_annotation_target_contexts(tv), model_annotation_model_contexts(tv) >>

\* The list of buckets the pass at pc walks.
PassContexts(p, tv) ==
    IF p = "body" THEN body_contexts(tv) ELSE annotation_contexts(tv)

(***************************************************************************)
(* The geometry iterator and the cache.                                    *)
(***************************************************************************)
\* ifcopenshell.geom.iterator(settings, ifc, include=include) with
\* settings.set_context_ids(context_ids): the products it yields.
IteratorProducts(include, context_ids) ==
    {e \in include : reps[e] \cap context_ids # {}}

\* The iterator yields its products in the order of the file: the product
\* it yields next, of those it has not yielded yet.
IteratorNext(pending) ==
    IF file_order = "ascending"
    THEN CHOOSE e \in pending : \A x \in pending : e <= x
    ELSE CHOOSE e \in pending : \A x \in pending : e >= x

\* The cache set on the iterators of the body pass only.
PassUsesCacheBodyOnly(p) == p = "body"

\* it.set_cache(cache) is called on the iterators of the body and of the
\* annotation pass (lines 454, 472); the camera iterator gets no cache
\* (line 483).
PassUsesCache(p) == p \in {"body", "annotation"}

\* The cache is consulted for the GUID; a hit is reused verbatim.
CacheHit(p, e) == PassUsesCache(p) /\ cache[e] # NoEntry

\* Geometry the iterator yields for e: the cached one, or the one computed
\* from the model.
IteratorGeometry(p, e) == IF CacheHit(p, e) THEN cache[e] ELSE geom[e]

\* Computed geometry is written back under the GUID.
CacheAfterGet(p, e) ==
    IF PassUsesCache(p) /\ cache[e] = NoEntry
    THEN [cache EXCEPT ![e] = geom[e]]
    ELSE cache

\* An eviction that removes nothing.
CacheRemoveNothing(c, guids) == c

\* An eviction that empties the cache whenever something was invalidated.
CacheRemoveAll(c, guids) ==
    [e \in DOMAIN c |-> IF guids # {} THEN NoEntry ELSE c[e]]

\* Line 441: [cache.remove(guid) for guid in invalidated_guids]
CacheRemove(c, guids) ==
    [e \in DOMAIN c |-> IF e \in guids THEN NoEntry ELSE c[e]]

\* One call of self.serialiser.write(elem).
WriteRecord(p, k, e) ==
    [elem |-> e, pass |-> p, bucket |-> k, geom |-> IteratorGeometry(p, e),
     hit |-> CacheHit(p, e)]

\* The fragment <g ifc:guid=...> the serialiser emits for one write.
Fragment(w) == [guid |-> w.elem, geom |-> w.geom]

(***************************************************************************)
(* Init                                                                    *)
(***************************************************************************)
\* generate_linework has not been called.
GenerateIdle ==
    /\ geom = [e \in Elements \cup {Camera} |-> 0]
    /\ edited = {}
    /\ edits = 0
    /\ cache = [e \in Elements \cup {Camera} |-> NoEntry]
    /\ svg_file = NoFile
    /\ pc = "idle"
    /\ bucket = 0
    /\ elements = {}
    /\ it_open = FALSE
    /\ it_pending = {}
    /\ processed = {}
    /\ written = <<>>
    /\ invalidated_guids = {}
    /\ results = <<>>
    /\ prev_results = {}
    /\ returned = "nothing"
    /\ extracted = FALSE

\* merge_linework_and_add_metadata has not been called.
MergeIdle ==
    /\ m_before = <<>>
    /\ m_root = <<>>
    /\ m_pc = "idle"
    /\ joined_paths = <<>>
    /\ m_group = 0
    /\ polygons = <<>>
    /\ classes = {}
    /\ merged_polygons = <<>>

\* get_purged_inner_holes_poly has not been called.
PurgeIdle ==
    /\ union_geom = <<>>
    /\ p_pc = "idle"
    /\ new_poly = <<>>

\* combine_svgs has not been called.
CombineIdle ==
    /\ underlay = <<>>
    /\ linework = <<>>
    /\ annotation = <<>>
    /\ outfile = <<>>
    /\ underlay_png = FALSE
    /\ c_pc = "idle"
    /\ c_returned = "nothing"

\* No generate method was called.
LayerIdle ==
    /\ has_layer = [k \in {"underlay", "linework", "annotation"} |-> TRUE]
    /\ should_use_cache = [k \in {"underlay", "linework", "annotation"} |-> FALSE]
    /\ cache_document = [k \in {"underlay", "linework", "annotation"} |-> 0]
    /\ last_generate = [kind |-> "none", before |-> 0, after |-> 0, returned |-> "nothing"]

\* get_converted_tolerance has not been called.
ToleranceIdle ==
    /\ project_unit = "None"
    /\ tolerance_call = [tolerance |-> 0, returned |-> 0]
    /\ buffer_distance = 0
    /\ union_min_area = 0

\* No container was contracted.
ContainerIdle ==
    /\ contracted_containers = <<>>
    /\ container_call = [op |-> "none", container |-> 0, before |-> <<>>,
                         outcome |-> "nothing"]

\* The sheet has no reference.
SheetIdle == references = <<>>

\* One process, nothing run in it twice.
OtherIdle ==
    /\ hash_seed = 0
    /\ first_run = [results |-> <<>>, root |-> <<>>, done |-> FALSE]
    /\ LayerIdle
    /\ ToleranceIdle
    /\ ContainerIdle
    /\ SheetIdle

\* A drawing of some target view of some model.
SomeModel ==
    /\ target_view \in DrawingTargetViews
    /\ reps \in ModelChoices
    /\ file_order \in FileOrders

\* The PLAN_VIEW drawing of the first model.
OneModel ==
    /\ target_view = "PLAN_VIEW"
    /\ reps = ModelChoice(0)
    /\ file_order = "ascending"

Init ==
    /\ SomeModel
    /\ GenerateIdle
    /\ MergeIdle
    /\ PurgeIdle
    /\ CombineIdle
    /\ OtherIdle

(***************************************************************************)
(* The user, between two runs of the operator.                             *)
(***************************************************************************)
\* An element is edited: its geometry changes and it is recorded for the
\* next sync (IfcStore.edited_objs).
EditElement(e) ==
    /\ pc = "idle"
    /\ edits < MaxEdits
    /\ geom' = [geom EXCEPT ![e] = @ + 1]
    /\ edited' = edited \cup {e}
    /\ edits' = edits + 1
    /\ UNCHANGED <<post_vars, model_vars, cache,
                   svg_file, pc, pass_vars, written, invalidated_guids, results,
                   prev_results, returned, extracted>>

\* The linework document of an earlier run is gone from the cache directory
\* (os.path.isfile(svg_path) is false again).
RemoveLineworkDocument ==
    /\ pc = "idle"
    /\ svg_file.exists
    /\ svg_file' = NoFile
    /\ UNCHANGED <<post_vars, model_vars, geom, edited, edits, cache, pc, pass_vars, written,
                   invalidated_guids, results, prev_results, returned, extracted>>

(***************************************************************************)
(* generate_linework                                                       *)
(***************************************************************************)
\* Lines 322-323: the drawing has no linework layer.
GenerateLinework_NoLinework ==
    /\ pc = "idle"
    /\ returned' = "None"
    /\ extracted' = FALSE
    /\ pc' = "done"
    /\ UNCHANGED <<post_vars, model_vars, geom, edited, edits, cache, svg_file, pass_vars,
                   written, invalidated_guids, results, prev_results>>

\* Lines 324-326: the linework document exists and the cache flag is set.
GenerateLinework_CachedDocument ==
    /\ pc = "idle"
    /\ svg_file.exists
    /\ returned' = "svg_path"
    /\ extracted' = FALSE
    /\ pc' = "done"
    /\ UNCHANGED <<post_vars, model_vars, geom, edited, edits, cache, svg_file, pass_vars,
                   written, invalidated_guids, results, prev_results>>

\* sync_all_objects() + sync_edited_objects(): the elements changed since
\* the last sync.
SyncedElements == edited

\* Lines 328-334, 439-443: sync, setup of the serialiser, eviction of the
\* invalidated GUIDs, start of the body pass.
GenerateLinework_Begin(use_cache) ==
    /\ pc = "idle"
    /\ ~(svg_file.exists /\ use_cache)
    /\ invalidated_guids' = SyncedElements
    /\ edited' = {}
    /\ cache' = CacheRemove(cache, SyncedElements)
    /\ written' = <<>>
    /\ elements' = drawing_elements
    /\ bucket' = 1
    /\ it_open' = FALSE
    /\ it_pending' = {}
    /\ processed' = {}
    /\ extracted' = TRUE
    /\ returned' = "nothing"
    /\ pc' = "body"
    /\ UNCHANGED <<post_vars, model_vars, geom, edits, svg_file, results, prev_results>>

InPass == pc \in {"body", "annotation"}
CurrentBuckets == PassContexts(pc, target_view)
CurrentContext == CurrentBuckets[bucket]

\* Lines 446, 464: "if body_context and elements" is false: the bucket is
\* passed over.
SkipBucket ==
    /\ InPass /\ ~it_open
    /\ bucket <= Len(CurrentBuckets)
    /\ ~(CurrentContext # {} /\ elements # {})
    /\ bucket' = bucket + 1
    /\ UNCHANGED <<post_vars, model_vars, geom, edited, edits, cache, svg_file, pc, elements, it_open,
                   it_pending, processed, written, invalidated_guids, results,
                   prev_results, returned, extracted>>

\* Lines 447-455, 465-473: the iterator of the bucket is created over the
\* remaining elements.
OpenIterator ==
    /\ InPass /\ ~it_open
    /\ bucket <= Len(CurrentBuckets)
    /\ CurrentContext # {} /\ elements # {}
    /\ it_open' = TRUE
    /\ it_pending' = IteratorProducts(elements, CurrentContext)
    /\ processed' = {}
    /\ UNCHANGED <<post_vars, model_vars, geom, edited, edits, cache, svg_file, pc, bucket, elements,
                   written, invalidated_guids, results, prev_results, returned,
                   extracted>>

\* Lines 456-458, 474-476: one round of the loop over yield_from_iterator.
YieldAndWrite(e) ==
    /\ InPass /\ it_open
    /\ it_pending # {}
    /\ e = IteratorNext(it_pending)
    /\ cache' = CacheAfterGet(pc, e)
    /\ processed' = processed \cup {e}
    /\ written' = Append(written, WriteRecord(pc, bucket, e))
    /\ it_pending' = it_pending \ {e}
    /\ UNCHANGED <<post_vars, model_vars, geom, edited, edits, svg_file, pc, bucket, elements,
                   it_open, invalidated_guids, results, prev_results, returned,
                   extracted>>

\* A working set from which the processed elements are not taken out.
RemainingKeepsAll(elems, done) == elems

\* A working set from which one processed element only is taken out.
RemainingKeepsSome(elems, done) ==
    IF done = {} THEN elems ELSE elems \ {CHOOSE x \in done : TRUE}

\* What line 459 / 477 leaves in the working set.
RemainingAfter(elems, done) == elems \ done

\* Lines 459, 477: the iterator is exhausted; "elements -= processed".
CloseIterator ==
    /\ InPass /\ it_open
    /\ it_pending = {}
    /\ elements' = RemainingAfter(elements, processed)
    /\ it_open' = FALSE
    /\ bucket' = bucket + 1
    /\ UNCHANGED <<post_vars, model_vars, geom, edited, edits, cache, svg_file, pc, it_pending, processed,
                   written, invalidated_guids, results, prev_results, returned,
                   extracted>>

\* Line 461: the body buckets are done; the annotation pass starts over
\* from a copy of the drawing elements.
StartAnnotationPass ==
    /\ pc = "body" /\ ~it_open
    /\ bucket > Len(CurrentBuckets)
    /\ elements' = drawing_elements
    /\ bucket' = 1
    /\ pc' = "annotation"
    /\ UNCHANGED <<post_vars, model_vars, geom, edited, edits, cache, svg_file, it_open, it_pending,
                   processed, written, invalidated_guids, results, prev_results,
                   returned, extracted>>

\* The camera pass left out: nothing is written for the camera.
CameraPassSkipped ==
    /\ pc = "annotation" /\ ~it_open
    /\ bucket > Len(CurrentBuckets)
    /\ pc' = "finalize"
    /\ UNCHANGED <<post_vars, model_vars, geom, edited, edits, cache, svg_file, pass_vars, written,
                   invalidated_guids, results, prev_results, returned, extracted>>

\* Lines 479-485: the annotation buckets are done; the camera element is
\* serialised by an iterator of its own.
CameraPass ==
    /\ pc = "annotation" /\ ~it_open
    /\ bucket > Len(CurrentBuckets)
    /\ cache' = CacheAfterGet("camera", Camera)
    /\ written' = Append(written, WriteRecord("camera", 0, Camera))
    /\ pc' = "finalize"
    /\ UNCHANGED <<post_vars, model_vars, geom, edited, edits, svg_file, pass_vars,
                   invalidated_guids, results, prev_results, returned, extracted>>

\* self.svg_buffer.get_value(): one fragment per write, in write order.
SerialiserOutput(w) == [i \in 1..Len(w) |-> Fragment(w[i])]

\* The children of the top-level group in the order they have.
OrderKept(frags) == frags

\* move_projection_to_bottom: the children of the top-level group reversed.
move_projection_to_bottom(frags) == Reverse(frags)

\* Lines 487-498: finalize, post-process, write the linework document.
Finalize ==
    /\ pc = "finalize"
    /\ results' = SerialiserOutput(written)
    /\ svg_file' = [exists |-> TRUE,
                    frags |-> move_projection_to_bottom(SerialiserOutput(written))]
    /\ returned' = "svg_path"
    /\ pc' = "done"
    /\ UNCHANGED <<post_vars, model_vars, geom, edited, edits, cache, pass_vars, written,
                   invalidated_guids, prev_results, extracted>>

\* CreateDrawing.execute goes on after generate_linework has returned.
ExecuteReturn ==
    /\ pc = "done"
    /\ pc' = "idle"
    /\ prev_results' = IF extracted THEN {results[i] : i \in 1..Len(results)}
                       ELSE prev_results
    /\ bucket' = 0
    /\ elements' = {}
    /\ it_open' = FALSE
    /\ it_pending' = {}
    /\ processed' = {}
    /\ written' = <<>>
    /\ invalidated_guids' = {}
    /\ results' = <<>>
    /\ returned' = "nothing"
    /\ extracted' = FALSE
    /\ UNCHANGED <<post_vars, model_vars, geom, edited, edits, cache, svg_file>>

Next ==
    \/ \E e \in Elements : EditElement(e)
    \/ RemoveLineworkDocument
    \/ GenerateLinework_NoLinework
    \/ GenerateLinework_CachedDocument
    \/ \E uc \in BOOLEAN : GenerateLinework_Begin(uc)
    \/ SkipBucket
    \/ OpenIterator
    \/ \E e \in Elements : YieldAndWrite(e)
    \/ CloseIterator
    \/ StartAnnotationPass
    \/ CameraPass
    \/ Finalize
    \/ ExecuteReturn

Spec == Init /\ [][Next]_vars

(***************************************************************************)
(* Properties of generate_linework.                                        *)
(***************************************************************************)
\* The buckets of pass p in which element e has a representation.
BucketsOf(e, p) ==
    {k \in DOMAIN PassContexts(p, target_view) :
        reps[e] \cap PassContexts(p, target_view)[k] # {}}

\* The writes of element e in pass p.
WritesOf(e, p) ==
    {i \in DOMAIN written : written[i].elem = e /\ written[i].pass = p}

\* The run has gone through the extraction and generate_linework returned.
ExtractionDone == pc = "done" /\ extracted

\* C1 as stated: in one run no element is written to the serialiser more
\* than once, the body pass, the annotation pass and the camera pass
\* counted together.
C1_NoElementWrittenTwice ==
    \A i, j \in DOMAIN written : written[i].elem = written[j].elem => i = j

\* C1 amended: in one run no element is written more than once within one
\* and the same pass.
C1_NoElementWrittenTwiceInAPass ==
    \A i, j \in DOMAIN written :
        (written[i].elem = written[j].elem /\ written[i].pass = written[j].pass)
            => i = j

\* An element with representations in several body buckets went through a
\* whole run and was written once in the body pass.
C1_Witness ==
    /\ ExtractionDone
    /\ \E e \in Elements :
        /\ Cardinality(BucketsOf(e, "body")) >= 2
        /\ Cardinality(WritesOf(e, "body")) = 1

\* Every fragment of the linework document holds the geometry the model has
\* for its element now.
DocumentFresh ==
    \A i \in DOMAIN svg_file.frags :
        svg_file.frags[i].geom = geom[svg_file.frags[i].guid]

\* Every invalidated element was computed anew the first time this run
\* asked for it, and all its writes hold its present geometry.
InvalidatedRecomputed ==
    \A i \in DOMAIN written :
        written[i].elem \in invalidated_guids =>
            /\ written[i].geom = geom[written[i].elem]
            /\ (\A j \in 1..(i - 1) : written[j].elem # written[i].elem)
                  => ~written[i].hit

\* The fragments of the elements that were not invalidated are those of the
\* extraction before.
OthersAsBefore ==
    prev_results # {} =>
        \A e \in (Elements \cup {Camera}) \ (invalidated_guids \cup edited) :
            {svg_file.frags[i] :
                  i \in {n \in DOMAIN svg_file.frags : svg_file.frags[n].guid = e}}
                = {f \in prev_results : f.guid = e}

EvictionStep == pc = "idle" /\ pc' = "body"

\* C3: the entries of the invalidated GUIDs are removed before the first
\* bucket is processed, that step removes no other entry, and no cache read
\* of the run returns an entry that was there before the eviction.
C3_EvictionBeforeBuckets ==
    /\ [][EvictionStep =>
            \A e \in DOMAIN cache :
                cache'[e] = IF e \in invalidated_guids' THEN NoEntry ELSE cache[e]]_vars
    /\ [](\A i \in DOMAIN written :
            (written[i].hit /\ written[i].elem \in invalidated_guids) =>
                \E j \in 1..(i - 1) :
                    written[j].elem = written[i].elem /\ ~written[j].hit)

\* The first bucket is about to be processed: an invalidated element that
\* the extraction before had cached has no entry, and another element
\* still has its entry.
C3_Witness ==
    /\ pc = "body" /\ bucket = 1 /\ ~it_open /\ written = <<>>
    /\ \E e \in invalidated_guids :
        cache[e] = NoEntry /\ \E f \in prev_results : f.guid = e
    /\ \E e \in Elements \ invalidated_guids : cache[e] # NoEntry

\* The order of the buckets for the plan views, as C4 gives it.
PlanOrder(p, tv) ==
    IF p = "body"
    THEN << plan_body_target_contexts(tv), plan_body_model_contexts(tv),
            model_body_target_contexts(tv), model_body_model_contexts(tv) >>
    ELSE << plan_annotation_target_contexts(tv), plan_annotation_model_contexts(tv),
            model_annotation_target_contexts(tv), model_annotation_model_contexts(tv) >>

\* The earliest bucket of the sequence seq that holds a representation of e.
EarliestBucket(e, seq) ==
    CHOOSE k \in DOMAIN seq :
        /\ reps[e] \cap seq[k] # {}
        /\ \A m \in 1..(k - 1) : reps[e] \cap seq[m] = {}

\* C4: for PLAN_VIEW and REFLECTED_PLAN_VIEW the buckets of a pass are
\* processed in the order Plan-exact, Plan-fallback, Model-exact,
\* Model-fallback, and an element is written while the earliest bucket
\* holding one of its representations is processed, and in no later one.
C4_PlanViewBucketOrder ==
    target_view \in PlanViews =>
        /\ (InPass /\ it_open) =>
              CurrentContext = PlanOrder(pc, target_view)[bucket]
        /\ \A i \in DOMAIN written : written[i].pass \in {"body", "annotation"} =>
              LET e == written[i].elem
                  p == written[i].pass
              IN /\ written[i].bucket = EarliestBucket(e, PlanOrder(p, target_view))
                 /\ WritesOf(e, p) = {i}

\* A plan view, the body pass over: an element with representations in a
\* Plan bucket and in a Model bucket was written in the Plan bucket.
C4_Witness ==
    /\ target_view \in PlanViews
    /\ pc = "annotation"
    /\ \E e \in Elements :
        /\ Cardinality(BucketsOf(e, "body")) >= 2
        /\ \E i \in WritesOf(e, "body") :
              \E c \in reps[e] \cap body_contexts(target_view)[written[i].bucket] :
                  c.type = "Plan"

\* C5: for the other target views only Model buckets are processed, and no
\* element is written for a representation in a Plan context.
C5_NoPlanContextOutsidePlanViews ==
    target_view \notin PlanViews =>
        /\ (InPass /\ it_open) => \A c \in CurrentContext : c.type = "Model"
        /\ InPass => bucket <= 3
        /\ \A i \in DOMAIN written : written[i].pass \in {"body", "annotation"} =>
              \E c \in reps[written[i].elem] : c.type = "Model"

\* A view that is no plan view, the run over: an element all of whose
\* representations are in Plan contexts, one of them a MODEL_VIEW one,
\* was not written, while another element was.
C5_Witness ==
    /\ target_view \notin PlanViews
    /\ ExtractionDone
    /\ \E e \in Elements :
        /\ \E c \in reps[e] : c.sub /\ c.tv = "MODEL_VIEW"
        /\ \A c \in reps[e] : c.type = "Plan"
        /\ \A i \in DOMAIN written : written[i].elem # e
    /\ \E i \in DOMAIN written : written[i].elem \in Elements

\* The number of the eight buckets that hold context c.
BucketCount(c, tv) ==
    Cardinality({k \in DOMAIN AllBuckets(tv) : c \in AllBuckets(tv)[k]})

\* The contexts the drawing draws from: a subcontext of type Plan or Model
\* for bodies, facetation or annotation, whose target view is the
\* drawing's or MODEL_VIEW, and a Model context that is no subcontext.
Drawn(c, tv) ==
    \/ /\ c.sub
       /\ c.type \in {"Plan", "Model"}
       /\ c.ident \in {"Body", "Facetation", "Annotation"}
       /\ c.tv \in {tv, "MODEL_VIEW"}
    \/ ~c.sub /\ c.type = "Model"

\* The contexts have just been classified: the first bucket is about to
\* be processed.
Classified == pc = "body" /\ bucket = 1 /\ ~it_open /\ written = <<>>

\* C6 as stated: once the contexts are classified, every representation
\* context of the model is in exactly one of the eight buckets.
C6_EveryContextInOneBucket ==
    Classified => \A c \in FileContexts : BucketCount(c, target_view) = 1

\* C6 amended: once the contexts are classified, no context is in two
\* buckets; a context is in one bucket if it is one the drawing draws from,
\* and in none otherwise.
C6_ContextInAtMostOneBucket ==
    Classified =>
        \A c \in FileContexts :
            BucketCount(c, target_view) = IF Drawn(c, target_view) THEN 1 ELSE 0

\* The contexts are classified for a MODEL_VIEW drawing, where the target
\* view and the fallback view are the same.
C6_Witness ==
    /\ Classified
    /\ target_view = "MODEL_VIEW"
    /\ \E c \in FileContexts : BucketCount(c, target_view) = 0
    /\ \E c \in FileContexts : BucketCount(c, target_view) = 1

\* C7: while a bucket is processed, every element written for an earlier
\* bucket of the pass is out of the working set handed to its iterator, and
\* the elements written for the bucket itself are the processed ones.
C7_BucketsOneAfterAnother ==
    InPass =>
        /\ \A i \in DOMAIN written : written[i].pass = pc =>
              IF written[i].bucket < bucket
              THEN written[i].elem \notin elements
              ELSE /\ written[i].bucket = bucket
                   /\ it_open
                   /\ written[i].elem \in processed
        /\ it_open => it_pending \subseteq elements

\* The iterator of a later bucket is open after an earlier bucket of the
\* pass has resolved an element.
C7_Witness ==
    /\ pc = "body" /\ it_open /\ it_pending # {}
    /\ \E i \in DOMAIN written :
        written[i].pass = "body" /\ written[i].bucket < bucket

\* C8 as stated: the geometry of an element is computed at most once in an
\* invocation, it is in the cache under its GUID once computed, and every
\* later request, the camera pass included, is served from the cache.
C8_ComputedOnceAndCached ==
    \A i \in DOMAIN written :
        /\ ~written[i].hit => cache[written[i].elem] = written[i].geom
        /\ \A j \in DOMAIN written :
              (i < j /\ written[j].elem = written[i].elem) => written[j].hit

\* C8 amended: the same for the requests of the body and annotation
\* passes; the camera pass computes the camera's geometry without the
\* cache and leaves no entry for it.
C8_ComputedOnceInBucketPasses ==
    \A i \in DOMAIN written :
        IF written[i].pass = "camera"
        THEN ~written[i].hit /\ cache[Camera] = NoEntry
        ELSE /\ ~written[i].hit => cache[written[i].elem] = written[i].geom
             /\ \A j \in DOMAIN written :
                   (i < j /\ written[j].elem = written[i].elem) =>
                       (written[j].hit /\ written[j].geom = written[i].geom)

\* An element was computed in the body pass and served from the cache in
\* the annotation pass of the same run.
C8_Witness ==
    /\ ExtractionDone
    /\ \E i, j \in DOMAIN written :
        /\ i < j
        /\ written[i].elem = written[j].elem
        /\ written[i].pass = "body" /\ ~written[i].hit
        /\ written[j].pass = "annotation" /\ written[j].hit

\* C9: a run that gets to the extraction writes the camera element, after
\* every write of the body and annotation passes, and nothing after it.
C9_CameraWrittenLast ==
    /\ \A i \in DOMAIN written :
          written[i].elem = Camera <=> i = Len(written) /\ written[i].pass = "camera"
    /\ (pc \in {"finalize", "done"} /\ extracted) =>
          /\ written # <<>>
          /\ written[Len(written)].elem = Camera
          /\ \A i \in 1..(Len(written) - 1) :
                written[i].pass \in {"body", "annotation"}
    /\ ExtractionDone =>
          (results # <<>> /\ results[Len(results)].guid = Camera)

\* A run is over in which the camera was written after writes of the body
\* pass and of the annotation pass.
C9_Witness ==
    /\ ExtractionDone
    /\ \E i, j \in DOMAIN written :
        /\ written[i].pass = "body"
        /\ written[j].pass = "annotation"
    /\ written[Len(written)].elem = Camera

\* The fragments of the serialiser's output tagged with the GUID of e.
FragmentsOf(e) == {i \in DOMAIN results : results[i].guid = e}

\* The elements whose only representation is in the context c.
OnlyIn(c) == {e \in Elements : reps[e] = {c}}

\* The scenario of C10: a PLAN_VIEW drawing of 2 elements in the
\* Plan/Body/PLAN_VIEW context and 1 in the Model/Body/MODEL_VIEW context.
Scenario ==
    /\ target_view = "PLAN_VIEW"
    /\ Cardinality(OnlyIn(Ctx("Plan", "Body", "PLAN_VIEW"))) = 2
    /\ Cardinality(OnlyIn(Ctx("Model", "Body", "MODEL_VIEW"))) = 1
    /\ Cardinality(Elements) = 3

NumFragments == 3

\* The coordinates of the path data are in hundredths of a drawing unit;
\* the polygons lie on a grid of cells of one unit.
Grid == (0..2) \X (0..2)
Frame == (-1..3) \X (-1..3)

\* round(float(o), 1) of line 576, in tenths of a unit.
Round1(c) == (c + 5) \div 10
RoundCoords(pts) == [i \in 1..Len(pts) |-> <<Round1(pts[i][1]), Round1(pts[i][2])>>]

\* Sub-paths of the serialiser: their points, the cells a ring of these
\* points encloses, and whether that ring is a valid one (a ring that
\* crosses itself is not).
SquareA ==
    [pts |-> << <<0, 0>>, <<100, 0>>, <<100, 100>>, <<0, 100>>, <<3, 2>> >>,
     cells |-> {<<0, 0>>}, valid |-> TRUE]
SquareB ==
    [pts |-> << <<100, 0>>, <<200, 0>>, <<200, 100>>, <<100, 100>>, <<100, 0>> >>,
     cells |-> {<<1, 0>>}, valid |-> TRUE]
CShape ==
    [pts |-> << <<0, 0>>, <<300, 0>>, <<300, 100>>, <<100, 100>>, <<100, 200>>,
                <<300, 200>>, <<300, 300>>, <<0, 300>>, <<0, 0>> >>,
     cells |-> Grid \ {<<1, 1>>, <<2, 1>>}, valid |-> TRUE]
Bar ==
    [pts |-> << <<200, 0>>, <<300, 0>>, <<300, 300>>, <<200, 300>>, <<200, 0>> >>,
     cells |-> {<<2, 0>>, <<2, 1>>, <<2, 2>>}, valid |-> TRUE]
BowTie ==
    [pts |-> << <<0, 200>>, <<100, 300>>, <<100, 200>>, <<0, 300>>, <<0, 200>> >>,
     cells |-> {<<0, 2>>}, valid |-> FALSE]
OpenLine ==
    [pts |-> << <<0, 0>>, <<100, 0>>, <<100, 100>> >>, cells |-> {}, valid |-> TRUE]
Sliver ==
    [pts |-> << <<0, 0>>, <<100, 0>>, <<0, 0>> >>, cells |-> {}, valid |-> TRUE]

\* ifcopenshell.util.element.get_material(element, should_skip_usage=True)
NoMaterial == [is_a |-> "None", name |-> ""]
Brick == [is_a |-> "IfcMaterial", name |-> "Brick"]
BrickLayers == [is_a |-> "IfcMaterialLayerSet", name |-> "Brick"]
Concrete == [is_a |-> "IfcMaterial", name |-> "Con crete"]
Unnamed == [is_a |-> "IfcMaterial", name |-> ""]

\* The fragments the merge is checked on: the material of the element, the
\* value of the element for the metadata key, the class the serialiser
\* gave the fragment and its sub-paths.
FragmentChoices ==
    << [material |-> Brick, value |-> "", class |-> <<"IfcWall">>, paths |-> <<SquareA>>],
       [material |-> BrickLayers, value |-> "EI 60", class |-> <<"IfcWall">>,
        paths |-> <<SquareB>>],
       [material |-> Brick, value |-> "", class |-> <<"IfcSlab">>, paths |-> <<CShape>>],
       [material |-> Brick, value |-> "", class |-> <<"IfcWall">>, paths |-> <<Bar>>],
       [material |-> Brick, value |-> "", class |-> <<"IfcRailing", "projection">>,
        paths |-> <<OpenLine>>],
       [material |-> Concrete, value |-> "", class |-> <<"IfcColumn">>,
        paths |-> <<SquareB, OpenLine>>],
       [material |-> NoMaterial, value |-> "", class |-> <<"IfcAnnotation">>,
        paths |-> <<SquareA>>],
       [material |-> Unnamed, value |-> "", class |-> <<"IfcWall">>, paths |-> <<SquareA>>],
       [material |-> Concrete, value |-> "", class |-> <<"IfcBeam">>, paths |-> <<BowTie>>],
       [material |-> Concrete, value |-> "", class |-> <<"IfcSpace">>, paths |-> <<>>],
       [material |-> Concrete, value |-> "", class |-> <<"IfcPlate">>,
        paths |-> <<Sliver>>] >>

\* The ifc:guid attribute of the fragment of the n-th element.
Guid(n) == "guid" \o ToString(n)
\* A group the merge emits has no ifc:guid attribute.
NoGuid == ""

\* The fragment of the n-th element as the serialiser wrote it.
SourceFragment(n, choice) ==
    [guid |-> Guid(n), material |-> choice.material, value |-> choice.value,
     class |-> choice.class, tokens |-> {}, paths |-> choice.paths,
     cells |-> {}, holes |-> {}]

\* The linework trees the serialiser wrote, the fragment of the n-th
\* element it serialised at place n.
InputTrees ==
    {[n \in 1..NumFragments |-> SourceFragment(n, FragmentChoices[f[n]])] :
        f \in [1..NumFragments -> 1..Len(FragmentChoices)]}

\* tool.Drawing.canonicalise_class_name: what is no letter or digit is
\* taken out.
canonicalise_class_name(name) ==
    CASE name = "Con crete" -> "Concrete"
      [] name = "EI 60" -> "EI60"
      [] OTHER -> name

\* self.metadata: the one metadata key of the drawing.
metadata == "FireRating"

\* Lines 543-550: the material name of a fragment's element.
material_name(el) ==
    IF el.material.is_a = "None" THEN ""
    ELSE canonicalise_class_name(IF el.material.name = "" THEN "null"
                                 ELSE el.material.name)

\* Lines 540-557: the class tokens line 559 appends.
AddedClasses(el) ==
    <<"cut">>
    \o (IF el.material.is_a = "None" THEN <<>>
        ELSE <<"material-" \o material_name(el)>>)
    \o (IF el.value = "" THEN <<>>
        ELSE <<canonicalise_class_name(metadata) \o "-"
               \o canonicalise_class_name(el.value)>>)

\* Line 559: the fragment with its class attribute set.
WithClass(el) == [el EXCEPT !.class = el.class \o AddedClasses(el)]

\* Line 562: the fragment goes into joined_paths.
IsJoined(el) == el.guid # NoGuid /\ material_name(el) # "null" /\ el.paths # <<>>

\* The material names of the fragments of the tree, in document order with
\* each name at its first occurrence: the key order of the dict.
RECURSIVE KeysOf(_, _)
KeysOf(frags, seen) ==
    IF frags = <<>> THEN <<>>
    ELSE LET el == Head(frags)
             k == material_name(el)
         IN IF IsJoined(el) /\ k \notin seen
            THEN <<k>> \o KeysOf(Tail(frags), seen \cup {k})
            ELSE KeysOf(Tail(frags), seen)

\* Lines 562-563: joined_paths after the first loop, the fragments of a
\* key given by their GUIDs.
JoinedPaths(frags) ==
    LET keys == KeysOf(frags, {})
        Of(k) == SelectSeq(frags, LAMBDA el : IsJoined(el) /\ material_name(el) = k)
    IN [i \in 1..Len(keys) |->
           [key |-> keys[i], els |-> [j \in 1..Len(Of(keys[i])) |-> Of(keys[i])[j].guid]]]

\* The fragment of the tree with this GUID.
ElementOf(frags, guid) == CHOOSE el \in {frags[i] : i \in 1..Len(frags)} : el.guid = guid

\* Lines 574-577: the sub-path is a closed ring.
IsClosed(subpath) ==
    LET coords == RoundCoords(subpath.pts)
    IN Len(coords) > 2 /\ coords[1] = coords[Len(coords)]

\* Lines 572-579: the fragment has a closed sub-path.
is_closed_polygon(el) == \E i \in 1..Len(el.paths) : IsClosed(el.paths[i])

\* Line 579: shapely.Polygon(coords) for the closed sub-paths of a fragment.
PolygonsOf(el) ==
    LET closed == SelectSeq(el.paths, IsClosed)
    IN [i \in 1..Len(closed) |-> [cells |-> closed[i].cells, valid |-> closed[i].valid]]

\* Line 579: shapely.Polygon(coords) raises ValueError for a ring of fewer
\* than four coordinates ("A linearring requires at least 4 coordinates").
PolygonFails(el) ==
    \E i \in 1..Len(el.paths) : IsClosed(el.paths[i]) /\ Len(el.paths[i].pts) < 4

RECURSIVE Concat(_)
Concat(seqs) == IF seqs = <<>> THEN <<>> ELSE Head(seqs) \o Concat(Tail(seqs))

\* Two cells share an edge.
Adjacent(a, b) ==
    \/ a[1] = b[1] /\ (a[2] = b[2] + 1 \/ b[2] = a[2] + 1)
    \/ a[2] = b[2] /\ (a[1] = b[1] + 1 \/ b[1] = a[1] + 1)

\* The cells of region that can be reached from the cells of from.
RECURSIVE Reach(_, _)
Reach(from, region) ==
    LET more == {c \in region \ from : \E d \in from : Adjacent(c, d)}
    IN IF more = {} THEN from ELSE Reach(from \cup more, region)

\* The connected parts of a region.
Components(region) == {Reach({c}, region) : c \in region}

\* The interior rings of a connected region: the parts of its complement
\* that are cut off from the outside.
HolesOf(region) ==
    LET rest == Frame \ region
        outside == Reach({<<-1, -1>>}, rest)
    IN Components(rest \ outside)

\* A set as a sequence, in some order.
RECURSIVE SetToSeq(_)
SetToSeq(S) ==
    IF S = {} THEN <<>>
    ELSE LET x == CHOOSE y \in S : TRUE IN <<x>> \o SetToSeq(S \ {x})

\* shapely.ops.unary_union of line 583: the geometry type of the union and
\* its polygons.
unary_union(polys) ==
    LET region == UNION {polys[i].cells : i \in 1..Len(polys)}
        parts == SetToSeq(Components(region))
    IN [type |-> IF Len(parts) = 0 THEN "GeometryCollection"
                 ELSE IF Len(parts) = 1 THEN "Polygon" ELSE "MultiPolygon",
        geoms |-> [i \in 1..Len(parts) |->
                      [cells |-> parts[i], interiors |-> HolesOf(parts[i])]]]

\* min_area as line 280 of tool/spatial.py hands it to the hole purging.
min_area == 3

\* The interior rings a merge that purged small holes would write.
PurgedInteriors(polygon) == {h \in polygon.interiors : Cardinality(h) >= min_area}

\* Lines 594-596: the interior rings written to the path of a polygon.
WrittenInteriors(polygon) == polygon.interiors

\* The seeds of the string hashes a Python process starts with.
HashSeeds == {0, 1}

\* Line 598: list(classes), the tokens in the order the set iterates
\* them, which the string hashes of the process decide.
ListOfSet(S) == IF hash_seed = 0 THEN SetToSeq(S) ELSE Reverse(SetToSeq(S))

\* Lines 592-599: the group emitted for a polygon of the union.
MergedFragment(polygon, cls) ==
    [guid |-> NoGuid, material |-> NoMaterial, value |-> "", class |-> ListOfSet(cls),
     tokens |-> cls, paths |-> <<>>, cells |-> polygon.cells,
     holes |-> WrittenInteriors(polygon)]

Range(seq) == {seq[i] : i \in 1..Len(seq)}

\* The class tokens of a group without the GUIDs of its fragments.
GroupClassesNoGuid(frags, els) ==
    UNION {Range(ElementOf(frags, g).class) : g \in Range(els)}

\* Lines 570-571: the class tokens collected of the fragments of a group.
GroupClasses(frags, els) ==
    UNION {Range(ElementOf(frags, g).class) \cup {g} : g \in Range(els)}

\* Line 491: root = etree.fromstring(results).
MergeInit ==
    /\ OneModel
    /\ GenerateIdle
    /\ PurgeIdle
    /\ CombineIdle
    /\ OtherIdle
    /\ m_before = <<>>
    /\ m_root \in InputTrees
    /\ m_pc = "post processing"
    /\ joined_paths = <<>>
    /\ m_group = 0
    /\ polygons = <<>>
    /\ classes = {}
    /\ merged_polygons = <<>>

\* Line 492: the children of the top-level group are reversed; line 493
\* calls the merge with this tree.
MoveProjectionToBottom ==
    /\ m_pc = "post processing"
    /\ m_root' = move_projection_to_bottom(m_root)
    /\ m_before' = m_root'
    /\ m_pc' = "start"
    /\ UNCHANGED <<generate_vars, other_vars, purge_vars, combine_vars, joined_paths, m_group,
                   polygons, classes, merged_polygons>>

\* Lines 539-563: the first loop sets the class attributes and fills
\* joined_paths.
AddMetadata ==
    /\ m_pc = "start"
    /\ m_root' = [i \in 1..Len(m_root) |-> WithClass(m_root[i])]
    /\ joined_paths' = JoinedPaths(m_root')
    /\ m_group' = 1
    /\ m_pc' = "groups"
    /\ UNCHANGED <<generate_vars, other_vars, purge_vars, combine_vars, m_before, polygons, classes,
                   merged_polygons>>

\* Lines 566-581: the classes and polygons of a group are collected and
\* its fragments with a closed ring are taken out of the tree.
CollectGroup ==
    /\ m_pc = "groups"
    /\ m_group <= Len(joined_paths)
    /\ LET els == joined_paths[m_group].els
       IN /\ \A g \in Range(els) : ~PolygonFails(ElementOf(m_root, g))
          /\ classes' = GroupClasses(m_root, els)
          /\ polygons' = Concat([j \in 1..Len(els) |-> PolygonsOf(ElementOf(m_root, els[j]))])
          /\ m_root' = SelectSeq(m_root,
                           LAMBDA el : ~(el.guid \in Range(els) /\ is_closed_polygon(el)))
    /\ m_pc' = "collected"
    /\ UNCHANGED <<generate_vars, other_vars, purge_vars, combine_vars, m_before, joined_paths, m_group,
                   merged_polygons>>

\* Line 579: shapely.Polygon raises for a fragment of the group; nothing
\* catches it and generate_linework fails before the tree is written.
PolygonRaises ==
    /\ m_pc = "groups"
    /\ m_group <= Len(joined_paths)
    /\ \E g \in Range(joined_paths[m_group].els) : PolygonFails(ElementOf(m_root, g))
    /\ m_pc' = "polygon raised"
    /\ UNCHANGED <<generate_vars, other_vars, purge_vars, combine_vars, m_before, m_root,
                   joined_paths, m_group, polygons, classes, merged_polygons>>

\* Lines 583-588: the union of the polygons of the group.
UnionGroup ==
    /\ m_pc = "collected"
    /\ merged_polygons' = unary_union(polygons)
    /\ m_pc' = "united"
    /\ UNCHANGED <<generate_vars, other_vars, purge_vars, combine_vars, m_before, m_root, joined_paths,
                   m_group, polygons, classes>>

\* Line 583: shapely.ops.unary_union raises on a ring that is not valid
\* (a GEOS topology error); nothing catches it.
UnionRaises ==
    /\ m_pc = "collected"
    /\ \E i \in 1..Len(polygons) : ~polygons[i].valid
    /\ m_pc' = "union raised"
    /\ UNCHANGED <<generate_vars, other_vars, purge_vars, combine_vars, m_before, m_root, joined_paths,
                   m_group, polygons, classes, merged_polygons>>

\* Lines 590-599: one group is appended to the top-level group for every
\* polygon of the union.
EmitGroup ==
    /\ m_pc = "united"
    /\ merged_polygons.type \in {"Polygon", "MultiPolygon"}
    /\ m_root' = m_root \o [i \in 1..Len(merged_polygons.geoms) |->
                                MergedFragment(merged_polygons.geoms[i], classes)]
    /\ m_group' = m_group + 1
    /\ m_pc' = "groups"
    /\ UNCHANGED <<generate_vars, other_vars, purge_vars, combine_vars, m_before, joined_paths, polygons,
                   classes, merged_polygons>>

\* Line 591: the union of no polygon is a GeometryCollection, which lines
\* 585-588 leave as it is and which is not iterable.
EmitRaises ==
    /\ m_pc = "united"
    /\ merged_polygons.type = "GeometryCollection"
    /\ m_pc' = "iteration raised"
    /\ UNCHANGED <<generate_vars, other_vars, purge_vars, combine_vars, m_before, m_root, joined_paths,
                   m_group, polygons, classes, merged_polygons>>

\* The loop over joined_paths is over.
MergeReturn ==
    /\ m_pc = "groups"
    /\ m_group > Len(joined_paths)
    /\ m_pc' = "done"
    /\ UNCHANGED <<generate_vars, other_vars, purge_vars, combine_vars, m_before, m_root, joined_paths,
                   m_group, polygons, classes, merged_polygons>>

MergeNext ==
    \/ MoveProjectionToBottom
    \/ AddMetadata
    \/ CollectGroup
    \/ PolygonRaises
    \/ UnionGroup
    \/ UnionRaises
    \/ EmitGroup
    \/ EmitRaises
    \/ MergeReturn

MergeSpec == MergeInit /\ [][MergeNext]_vars

(***************************************************************************)
(* Properties of merge_linework_and_add_metadata.                          *)
(***************************************************************************)
\* The GUIDs of the elements of the tree.
AllGuids == {Guid(n) : n \in 1..NumFragments}

\* The groups the merge emitted.
MergedIn(frags) == {el \in Range(frags) : el.guid = NoGuid}

\* The GUIDs that label a fragment: as its guid attribute, or as a class
\* token of a merged group.
Labels(frags) ==
    UNION {IF el.guid # NoGuid THEN {el.guid} ELSE el.tokens \cap AllGuids :
              el \in Range(frags)}

\* The fragment of a GUID with the class attribute the first loop gives it.
Annotated(guid) == WithClass(ElementOf(m_before, guid))

\* C11: when the merge returns, the GUIDs that label a fragment of the
\* tree are those that labelled one when it was called: none is lost and
\* none is new.
C11_MergeKeepsElements ==
    m_pc = "done" => Labels(m_root) = Labels(m_before)

\* The merge returned, a fragment was taken out of the tree and its GUID
\* is a class token of a merged group.
C11_Witness ==
    /\ m_pc = "done"
    /\ \E el \in Range(m_before) :
        /\ \A f \in Range(m_root) : f.guid # el.guid
        /\ \E g \in MergedIn(m_root) : el.guid \in g.tokens

\* The groups emitted for the group of joined_paths worked on last.
LastEmitted ==
    {m_root[i] : i \in (Len(m_root) - Len(merged_polygons.geoms) + 1)..Len(m_root)}

\* The fragments of a group of joined_paths a closed ring of which is part
\* of the merged group g.
Contributors(g, els) ==
    {el \in {Annotated(guid) : guid \in Range(els)} :
        \E i \in 1..Len(el.paths) :
            IsClosed(el.paths[i]) /\ el.paths[i].cells \cap g.cells # {}}

\* C12: the class of a merged group is the union of the class tokens of
\* the fragments merged into it and of the GUIDs of the elements a closed
\* ring of which is part of it, and holds no GUID of another element.
C12_MergedClassOfContributors ==
    (m_pc = "groups" /\ m_group > 1) =>
        \A g \in LastEmitted :
            g.tokens = UNION {Range(el.class) \cup {el.guid} :
                                 el \in Contributors(g, joined_paths[m_group - 1].els)}

\* The group k of joined_paths has a fragment with a closed ring.
GroupHasClosedRing(k) ==
    \E guid \in Range(joined_paths[k].els) : is_closed_polygon(ElementOf(m_before, guid))

\* The fragments of the elements of els are in the tree, in the order
\* they had when the merge was called.
Untouched(els) ==
    SelectSeq(m_root, LAMBDA el : el.guid \in Range(els))
        = SelectSeq([i \in 1..Len(m_before) |-> WithClass(m_before[i])],
                    LAMBDA el : el.guid \in Range(els))

\* C13: a group of joined_paths without a closed ring is left as it is:
\* the merge does not fail on it, its fragments stay in the tree and no
\* merged group is emitted for it.
C13_GroupWithoutClosedRingUntouched ==
    \A k \in 1..Len(joined_paths) :
        ~GroupHasClosedRing(k) =>
            /\ m_group = k => m_pc # "iteration raised"
            /\ Untouched(joined_paths[k].els)
            /\ \A g \in MergedIn(m_root) :
                  g.tokens \cap Range(joined_paths[k].els) = {}

\* C14: a union that fails for a group does not fail the merge: the merge
\* never ends in the exception of shapely.ops.unary_union.
C14_UnionFailureNotFatal == m_pc # "union raised"

MaxHoles == 2

\* The areas of the interior rings: below, at and above min_area.
RingAreas == {min_area - 2, min_area, min_area + 1}

\* A polygon with the exterior ring ext and interior rings of these areas;
\* a ring is known by the polygon it is of and its place in it.
PolygonWith(ext, areas) ==
    [type |-> "Polygon", exterior |-> ext,
     interiors |-> [i \in 1..Len(areas) |-> [of |-> ext, n |-> i, area |-> areas[i]]],
     geoms |-> <<>>]

AreaLists == UNION {[1..n -> RingAreas] : n \in 0..MaxHoles}

\* The geometries handed to the hole purging: a polygon, a multi-polygon
\* of two polygons, a geometry of another type.
PurgeInputs ==
    {PolygonWith("a", areas) : areas \in AreaLists}
    \cup {[type |-> "MultiPolygon", exterior |-> "", interiors |-> <<>>,
           geoms |-> <<PolygonWith("a", p[1]), PolygonWith("b", p[2])>>] :
             p \in AreaLists \X AreaLists}
    \cup {[type |-> "GeometryCollection", exterior |-> "", interiors |-> <<>>,
           geoms |-> <<>>]}

\* get_poly_valid_interior_list keeping the rings above min_area only.
get_poly_valid_interior_listAbove(poly, minimum, interiors_list) ==
    interiors_list \o SelectSeq(poly.interiors, LAMBDA interior : interior.area > minimum)

\* Lines 356-361: the rings of poly of an area of min_area or more are
\* appended to interiors_list.
get_poly_valid_interior_list(poly, minimum, interiors_list) ==
    interiors_list \o SelectSeq(poly.interiors, LAMBDA interior : interior.area >= minimum)

\* Lines 340-343: the loop over the polygons of a MultiPolygon.
RECURSIVE InteriorsOfAll(_, _, _)
InteriorsOfAll(polys, minimum, interiors_list) ==
    IF polys = <<>> THEN interiors_list
    ELSE InteriorsOfAll(Tail(polys), minimum,
                        get_poly_valid_interior_list(Head(polys), minimum, interiors_list))

\* Lines 336-353. The MultiPolygon branch (339-345) builds the polygon of the
\* exterior of the last polygon of the loop with the rings of all of them.
get_purged_inner_holes_poly(geometry, minimum) ==
    IF geometry.type = "MultiPolygon"
    THEN [type |-> "Polygon",
          exterior |-> geometry.geoms[Len(geometry.geoms)].exterior,
          interiors |-> InteriorsOfAll(geometry.geoms, minimum, <<>>),
          geoms |-> <<>>]
    ELSE [type |-> "Polygon", exterior |-> geometry.exterior,
          interiors |-> get_poly_valid_interior_list(geometry, minimum, <<>>),
          geoms |-> <<>>]

PurgeInit ==
    /\ OneModel
    /\ GenerateIdle
    /\ MergeIdle
    /\ CombineIdle
    /\ OtherIdle
    /\ union_geom \in PurgeInputs
    /\ p_pc = "start"
    /\ new_poly = <<>>

\* Lines 336-353, for a Polygon or a MultiPolygon.
PurgeReturn ==
    /\ p_pc = "start"
    /\ union_geom.type \in {"Polygon", "MultiPolygon"}
    /\ new_poly' = get_purged_inner_holes_poly(union_geom, min_area)
    /\ p_pc' = "done"
    /\ UNCHANGED <<generate_vars, other_vars, merge_vars, combine_vars, union_geom>>

\* Line 353, for a geometry of another type: new_poly was never bound.
PurgeRaises ==
    /\ p_pc = "start"
    /\ union_geom.type \notin {"Polygon", "MultiPolygon"}
    /\ p_pc' = "raised"
    /\ UNCHANGED <<generate_vars, other_vars, merge_vars, combine_vars, union_geom, new_poly>>

PurgeNext ==
    \/ PurgeReturn
    \/ PurgeRaises

PurgeSpec == PurgeInit /\ [][PurgeNext]_vars

(***************************************************************************)
(* Properties of get_purged_inner_holes_poly.                              *)
(***************************************************************************)
\* C16: for a Polygon the result has the exterior ring of the input, and
\* its interior rings are the interior rings of the input of an area of
\* min_area or more, all of them, in the order of the input.
C16_PurgeKeepsLargeHolesOfPolygon ==
    (p_pc = "done" /\ union_geom.type = "Polygon") =>
        /\ new_poly.exterior = union_geom.exterior
        /\ \A r \in Range(union_geom.interiors) :
              r \in Range(new_poly.interiors) <=> r.area >= min_area
        /\ Range(new_poly.interiors) \subseteq Range(union_geom.interiors)
        /\ \A i, j \in 1..Len(new_poly.interiors) :
              i < j => new_poly.interiors[i].n < new_poly.interiors[j].n

\* A polygon with a ring below and a ring at or above the minimum went
\* through the purging and has one ring left.
C16_Witness ==
    /\ p_pc = "done"
    /\ union_geom.type = "Polygon"
    /\ \E r \in Range(union_geom.interiors) : r.area < min_area
    /\ \E r \in Range(union_geom.interiors) : r.area >= min_area
    /\ Len(union_geom.interiors) = 2
    /\ Len(new_poly.interiors) = 1

\* The polygons of a geometry.
PartsOf(geometry) ==
    IF geometry.type = "MultiPolygon" THEN Range(geometry.geoms) ELSE {geometry}

\* C28: for a MultiPolygon the result has, for every polygon of the input,
\* a polygon with its exterior ring and with exactly its own interior
\* rings of an area of min_area or more.
C28_PurgeKeepsEveryComponent ==
    (p_pc = "done" /\ union_geom.type = "MultiPolygon") =>
        \A c \in Range(union_geom.geoms) :
            \E p \in PartsOf(new_poly) :
                /\ p.exterior = c.exterior
                /\ Range(p.interiors) = {r \in Range(c.interiors) : r.area >= min_area}

(***************************************************************************)
(* combine_svgs: the layer documents, line by line.                        *)
(***************************************************************************)
\* Number of lines of content of a layer document.
MaxBodyLines == 2

\* A layer that was not generated (None).
NoLayer == [present |-> FALSE, lines |-> <<>>]

\* A line of a document: the layer it is of, its number and the pieces of
\* text it holds.
Line(layer, text) == [layer |-> layer, n |-> 0, text |-> text]
Numbered(lines) == [i \in 1..Len(lines) |-> [lines[i] EXCEPT !.n = i]]
Content(layer, b) == [i \in 1..b |-> Line(layer, <<"content">>)]

\* A document saved by the SvgWriter: the XML declaration, the opening svg
\* tag, the content and the closing tag, each on a line of its own.
SvgWriterDocument(layer, b) ==
    [present |-> TRUE,
     lines |-> Numbered(<<Line(layer, <<"<?xml?>">>), Line(layer, <<"<svg>">>)>>
                        \o Content(layer, b)
                        \o <<Line(layer, <<"</svg>">>)>>)]

\* The defs block of the linework document: none, one with its tags on
\* lines of their own, one on a single line.
DefsBlocks ==
    {<<>>,
     <<Line("linework", <<"<defs>">>), Line("linework", <<"marker">>),
       Line("linework", <<"</defs>">>)>>,
     <<Line("linework", <<"<defs>", "marker", "</defs>">>)>>}

\* The linework document generate_linework writes with etree.tostring: the
\* opening svg tag on the first line.
LineworkDocument(defs, b) ==
    [present |-> TRUE,
     lines |-> Numbered(<<Line("linework", <<"<svg>">>)>> \o defs
                        \o Content("linework", b)
                        \o <<Line("linework", <<"</svg>">>)>>)]

UnderlayInputs == {NoLayer} \cup {SvgWriterDocument("underlay", b) : b \in 0..MaxBodyLines}
LineworkInputs ==
    {NoLayer} \cup {LineworkDocument(d, b) : d \in DefsBlocks, b \in 0..MaxBodyLines}
AnnotationInputs ==
    {NoLayer} \cup {SvgWriterDocument("annotation", b) : b \in 0..MaxBodyLines}

\* "x in line"
Holds(line, x) == \E i \in 1..Len(line.text) : line.text[i] = x

\* self.svg_writer.svg.tostring() after define_boilerplate().
boilerplate == <<"<svg>", "<defs>", "patterns", "</defs>", "</svg>">>

\* The boilerplate written as it is.
BoilerplateWhole(text) == text

\* Line 241: boilerplate.replace("</svg>", "").
BoilerplateOpening(text) == SelectSeq(text, LAMBDA piece : piece # "</svg>")

\* One line of header for every layer.
HeaderLinesOne(layer) == 1

\* Lines 245, 255, 271: the lines skipped at the head of a layer document
\* ("i < 2" for underlay and annotation, "i == 0" for linework).
HeaderLines(layer) == IF layer = "linework" THEN 1 ELSE 2

\* Lines 244-249, 270-275: the lines of the underlay or of the annotation
\* that are written.
PlainLayerLines(doc, layer) ==
    SelectSeq(doc.lines,
              LAMBDA line : line.n > HeaderLines(layer) /\ ~Holds(line, "</svg>"))

\* Lines 253-267: the lines of the linework that are written, from line i
\* on, should_skip as the lines before left it.
RECURSIVE LineworkLines(_, _, _)
LineworkLines(lines, i, should_skip) ==
    IF i > Len(lines) THEN <<>>
    ELSE LET line == lines[i]
         IN IF i <= HeaderLines("linework")
            THEN LineworkLines(lines, i + 1, should_skip)
            ELSE IF Holds(line, "</svg>")
            THEN LineworkLines(lines, i + 1, should_skip)
            ELSE IF Holds(line, "<defs>")
            THEN LineworkLines(lines, i + 1, TRUE)
            ELSE IF Holds(line, "</defs>")
            THEN LineworkLines(lines, i + 1, FALSE)
            ELSE IF should_skip
            THEN LineworkLines(lines, i + 1, should_skip)
            ELSE <<line>> \o LineworkLines(lines, i + 1, should_skip)

\* Every layer is opened, generated or not.
LayerIsReadAlways(doc) == TRUE

\* Lines 242, 251, 268: "if underlay:", "if linework:", "if annotation:".
LayerIsRead(doc) == doc.present

\* open(path) of a layer: it fails for a path that is None.
CanOpen(doc) == doc.present

CombineInit ==
    /\ OneModel
    /\ GenerateIdle
    /\ MergeIdle
    /\ PurgeIdle
    /\ OtherIdle
    /\ underlay \in UnderlayInputs
    /\ linework \in LineworkInputs
    /\ annotation \in AnnotationInputs
    /\ outfile = <<>>
    /\ underlay_png = FALSE
    /\ c_pc = "start"
    /\ c_returned = "nothing"

\* Lines 237-241: the output is opened and the boilerplate written without
\* its closing tag.
CombineOpen ==
    /\ c_pc = "start"
    /\ outfile' = <<Line("boilerplate", BoilerplateOpening(boilerplate))>>
    /\ c_pc' = "underlay"
    /\ UNCHANGED <<generate_vars, other_vars, merge_vars, purge_vars, underlay, linework, annotation,
                   underlay_png, c_returned>>

\* Lines 242-250: the underlay, and the copy of its raster image.
CombineUnderlay ==
    /\ c_pc = "underlay"
    /\ IF LayerIsRead(underlay)
       THEN IF CanOpen(underlay)
            THEN /\ outfile' = outfile \o PlainLayerLines(underlay, "underlay")
                 /\ underlay_png' = TRUE
                 /\ c_pc' = "linework"
            ELSE /\ c_pc' = "raised"
                 /\ UNCHANGED <<outfile, underlay_png>>
       ELSE /\ c_pc' = "linework"
            /\ UNCHANGED <<outfile, underlay_png>>
    /\ UNCHANGED <<generate_vars, other_vars, merge_vars, purge_vars, underlay, linework, annotation,
                   c_returned>>

\* Lines 251-267: the linework.
CombineLinework ==
    /\ c_pc = "linework"
    /\ IF LayerIsRead(linework)
       THEN IF CanOpen(linework)
            THEN /\ outfile' = outfile \o LineworkLines(linework.lines, 1, FALSE)
                 /\ c_pc' = "annotation"
            ELSE /\ c_pc' = "raised"
                 /\ UNCHANGED outfile
       ELSE /\ c_pc' = "annotation"
            /\ UNCHANGED outfile
    /\ UNCHANGED <<generate_vars, other_vars, merge_vars, purge_vars, underlay, linework, annotation,
                   underlay_png, c_returned>>

\* Lines 268-275: the annotation.
CombineAnnotation ==
    /\ c_pc = "annotation"
    /\ IF LayerIsRead(annotation)
       THEN IF CanOpen(annotation)
            THEN /\ outfile' = outfile \o PlainLayerLines(annotation, "annotation")
                 /\ c_pc' = "close"
            ELSE /\ c_pc' = "raised"
                 /\ UNCHANGED outfile
       ELSE /\ c_pc' = "close"
            /\ UNCHANGED outfile
    /\ UNCHANGED <<generate_vars, other_vars, merge_vars, purge_vars, underlay, linework, annotation,
                   underlay_png, c_returned>>

\* Lines 276-277: the closing tag is written and the path returned.
CombineClose ==
    /\ c_pc = "close"
    /\ outfile' = Append(outfile, Line("closing", <<"</svg>">>))
    /\ c_returned' = "svg_path"
    /\ c_pc' = "done"
    /\ UNCHANGED <<generate_vars, other_vars, merge_vars, purge_vars, underlay, linework, annotation,
                   underlay_png>>

CombineNext ==
    \/ CombineOpen
    \/ CombineUnderlay
    \/ CombineLinework
    \/ CombineAnnotation
    \/ CombineClose

CombineSpec == CombineInit /\ [][CombineNext]_vars

(***************************************************************************)
(* Properties of combine_svgs.                                             *)
(***************************************************************************)
\* The place of a layer in the output.
LayerRank(layer) ==
    CASE layer = "boilerplate" -> 0
      [] layer = "underlay" -> 1
      [] layer = "linework" -> 2
      [] layer = "annotation" -> 3
      [] layer = "closing" -> 4

\* The lines of a layer in the output.
OutputOf(layer) == SelectSeq(outfile, LAMBDA line : line.layer = layer)

\* C17: the output starts with the opening of the boilerplate, goes on
\* with the lines of the underlay, of the linework and of the annotation
\* in this order, and ends with a closing tag, the only one it holds.
C17_LayersInOrderOneClosingTag ==
    c_pc = "done" =>
        /\ outfile[1].layer = "boilerplate"
        /\ outfile[1].text # <<>>
        /\ \A i, j \in 1..Len(outfile) :
              i < j => LayerRank(outfile[i].layer) < LayerRank(outfile[j].layer)
                       \/ (outfile[i].layer = outfile[j].layer
                           /\ outfile[i].n < outfile[j].n)
        /\ outfile[Len(outfile)] = Line("closing", <<"</svg>">>)
        /\ \A i \in 1..Len(outfile) : Holds(outfile[i], "</svg>") <=> i = Len(outfile)

\* The three layers were combined and each has lines in the output.
C17_Witness ==
    /\ c_pc = "done"
    /\ OutputOf("underlay") # <<>>
    /\ OutputOf("linework") # <<>>
    /\ OutputOf("annotation") # <<>>

\* The line is in the output.
Written(line) == \E i \in 1..Len(outfile) : outfile[i] = line

\* The line belongs to a defs block: it holds a defs tag or lies between
\* an opening and the next closing tag.
InDefsBlock(lines, n) ==
    \/ Holds(lines[n], "<defs>")
    \/ Holds(lines[n], "</defs>")
    \/ \E a \in 1..(n - 1) :
          /\ Holds(lines[a], "<defs>")
          /\ \A m \in a..(n - 1) : ~Holds(lines[m], "</defs>")

\* The layers by name.
Layer(name) ==
    CASE name = "underlay" -> underlay
      [] name = "linework" -> linework
      [] name = "annotation" -> annotation

LayerNames == {"underlay", "linework", "annotation"}

\* C18 as stated: of every layer that is present the first line is
\* dropped and every later line is written, apart from the lines with the
\* closing tag and, for the linework, the lines of the defs block.
C18_FirstLineOnlyDropped ==
    c_pc = "done" =>
        \A name \in LayerNames :
            \A n \in 1..Len(Layer(name).lines) :
                LET line == Layer(name).lines[n]
                IN Written(line) <=>
                      /\ n >= 2
                      /\ ~Holds(line, "</svg>")
                      /\ name = "linework" => ~InDefsBlock(Layer(name).lines, n)

\* C18 amended: of the underlay and of the annotation the first two lines
\* are dropped and every later line without closing tag is written; of the
\* linework the first line only is dropped as header: its second line is
\* written unless it holds a closing tag or a defs tag.
C18_HeaderLinesDropped ==
    c_pc = "done" =>
        /\ \A name \in {"underlay", "annotation"} :
              \A n \in 1..Len(Layer(name).lines) :
                  Written(Layer(name).lines[n]) <=>
                      (n >= 3 /\ ~Holds(Layer(name).lines[n], "</svg>"))
        /\ linework.present =>
              /\ ~Written(linework.lines[1])
              /\ Written(linework.lines[2]) <=>
                    /\ ~Holds(linework.lines[2], "</svg>")
                    /\ ~Holds(linework.lines[2], "<defs>")
                    /\ ~Holds(linework.lines[2], "</defs>")

\* The three layers were combined: the second line of the underlay is not
\* in the output and the second line of the linework is.
C18_Witness ==
    /\ c_pc = "done"
    /\ underlay.present /\ annotation.present /\ linework.present
    /\ ~Written(underlay.lines[2])
    /\ Written(linework.lines[2])
    /\ OutputOf("underlay") # <<>>

\* C19: no line of the defs block of the linework is written, and every
\* line after the block that holds no closing tag is written, wherever the
\* tags of the block stand.
C19_DefsBlockOnlyDropped ==
    (c_pc = "done" /\ linework.present) =>
        \A n \in 2..Len(linework.lines) :
            Written(linework.lines[n]) <=>
                /\ ~Holds(linework.lines[n], "</svg>")
                /\ ~InDefsBlock(linework.lines, n)

\* The tag-bearing line of the linework that comes last before line n.
LastTagBefore(lines, n) ==
    LET tagged == {a \in 2..(n - 1) :
                      /\ ~Holds(lines[a], "</svg>")
                      /\ Holds(lines[a], "<defs>") \/ Holds(lines[a], "</defs>")}
    IN IF tagged = {} THEN 0 ELSE CHOOSE a \in tagged : \A b \in tagged : b <= a

\* What combine_svgs keeps of a layer: of underlay and annotation the lines
\* from the third on without closing tag; of the linework the lines from
\* the second on without closing or defs tag before which the last line
\* with a defs tag, if any, holds no opening one.
Kept(name, n) ==
    LET lines == Layer(name).lines
    IN IF name = "linework"
       THEN /\ n >= 2
            /\ ~Holds(lines[n], "</svg>")
            /\ ~Holds(lines[n], "<defs>")
            /\ ~Holds(lines[n], "</defs>")
            /\ LET a == LastTagBefore(lines, n)
               IN a = 0 \/ ~Holds(lines[a], "<defs>")
       ELSE n >= 3 /\ ~Holds(lines[n], "</svg>")

\* C20: whichever layers are present, combine_svgs returns the path of the
\* output, and the output holds what is kept of the present layers, in the
\* order underlay, linework, annotation, and nothing of an absent layer.
C20_AbsentLayersSkipped ==
    /\ c_pc # "raised"
    /\ c_pc = "done" =>
          /\ c_returned = "svg_path"
          /\ \A name \in LayerNames :
                /\ ~Layer(name).present => OutputOf(name) = <<>>
                /\ Layer(name).present =>
                      OutputOf(name)
                          = SelectSeq(Layer(name).lines, LAMBDA line : Kept(name, line.n))
          /\ \A i, j \in 1..Len(outfile) :
                i < j => LayerRank(outfile[i].layer) <= LayerRank(outfile[j].layer)
          /\ underlay_png <=> underlay.present

\* The linework alone was combined, the other layers absent.
C20_Witness ==
    /\ c_pc = "done"
    /\ ~underlay.present /\ ~annotation.present /\ linework.present
    /\ OutputOf("linework") # <<>>
    /\ Len(outfile) = Len(OutputOf("linework")) + 2

(***************************************************************************)
(* CreateDrawing.execute: the linework is post-processed, written and      *)
(* combined with the underlay and the annotation.                          *)
(***************************************************************************)
\* Lines 494-495: etree.tostring(root), a line for the opening tag, a line
\* for every child of the top-level group and a line for the closing tag.
TreeDocument(frags) ==
    [present |-> TRUE,
     lines |-> Numbered(<<Line("linework", <<"<svg>">>)>>
                        \o [i \in 1..Len(frags) |-> Line("linework", <<"<g>", frags[i].guid>>)]
                        \o <<Line("linework", <<"</svg>">>)>>)]

\* Lines 207-214: the underlay is there, the serialiser has written the
\* linework; the annotation does not depend on the linework.
ComposeInit ==
    /\ OneModel
    /\ GenerateIdle
    /\ PurgeIdle
    /\ OtherIdle
    /\ m_before = <<>>
    /\ m_root \in InputTrees
    /\ m_pc = "post processing"
    /\ joined_paths = <<>>
    /\ m_group = 0
    /\ polygons = <<>>
    /\ classes = {}
    /\ merged_polygons = <<>>
    /\ underlay = SvgWriterDocument("underlay", 1)
    /\ linework = <<>>
    /\ annotation = SvgWriterDocument("annotation", 1)
    /\ outfile = <<>>
    /\ underlay_png = FALSE
    /\ c_pc = "idle"
    /\ c_returned = "nothing"

\* Lines 494-497 and 217: the tree is written to the linework document,
\* generate_linework returns its path and combine_svgs is called.
WriteLinework ==
    /\ m_pc = "done"
    /\ c_pc = "idle"
    /\ linework' = TreeDocument(m_root)
    /\ c_pc' = "start"
    /\ UNCHANGED <<generate_vars, other_vars, merge_vars, purge_vars, underlay, annotation,
                   outfile, underlay_png, c_returned>>

ComposeNext ==
    \/ MergeNext
    \/ WriteLinework
    \/ CombineNext

ComposeSpec == ComposeInit /\ [][ComposeNext]_vars

(***************************************************************************)
(* Properties of the order of the final document.                          *)
(***************************************************************************)
\* The fragment of the element is in the final document.
InDocument(guid) ==
    \E i \in 1..Len(outfile) : outfile[i].text = <<"<g>", guid>>

\* The place of the fragment of the element in the final document.
PlaceOf(guid) ==
    CHOOSE i \in 1..Len(outfile) : outfile[i].text = <<"<g>", guid>>

\* The lines of the linework come after those of the underlay and before
\* those of the annotation.
LineworkBetween ==
    \A i, j \in 1..Len(outfile) :
        /\ (outfile[i].layer = "underlay" /\ outfile[j].layer = "linework") => i < j
        /\ (outfile[i].layer = "linework" /\ outfile[j].layer = "annotation") => i < j

\* C21 as stated: of two elements the serialiser wrote one before the
\* other and whose fragments are in the final document, the fragment of
\* the one written later comes later; the linework comes after the
\* underlay and before the annotation.
C21_LaterSerialisedPaintedAbove ==
    c_pc = "done" =>
        /\ \A a, b \in 1..NumFragments :
              (a < b /\ InDocument(Guid(a)) /\ InDocument(Guid(b)))
                  => PlaceOf(Guid(a)) < PlaceOf(Guid(b))
        /\ LineworkBetween

\* C21 amended: of two such elements the fragment of the one written
\* first comes later in the final document, so it is painted above the
\* other; the merged groups come after every fragment of an element; the
\* linework comes after the underlay and before the annotation.
C21_FirstSerialisedPaintedAbove ==
    c_pc = "done" =>
        /\ \A a, b \in 1..NumFragments :
              (a < b /\ InDocument(Guid(a)) /\ InDocument(Guid(b)))
                  => PlaceOf(Guid(a)) > PlaceOf(Guid(b))
        /\ \A i, j \in 1..Len(outfile) :
              (outfile[i].text = <<"<g>", NoGuid>> /\ outfile[j].layer = "linework"
               /\ outfile[j].text # <<"<g>", NoGuid>>) => j < i
        /\ LineworkBetween

\* The final document holds the fragments of two elements, a merged group,
\* and lines of the underlay and of the annotation.
C21_Witness ==
    /\ c_pc = "done"
    /\ \E a, b \in 1..NumFragments : a < b /\ InDocument(Guid(a)) /\ InDocument(Guid(b))
    /\ InDocument(NoGuid)
    /\ OutputOf("underlay") # <<>>
    /\ OutputOf("annotation") # <<>>

\* The serialiser classed the fragment as a projection.
Projection(el) == el.guid # NoGuid /\ "projection" \in Range(el.class)

\* C22: in the tree generate_linework writes to the linework document,
\* every fragment the serialiser classed as a projection comes before
\* every other fragment, the merged groups included.
C22_ProjectionsBeneathCut ==
    m_pc = "done" =>
        \A i, j \in 1..Len(m_root) :
            (Projection(m_root[i]) /\ ~Projection(m_root[j])) => i < j

\* C25: the fragment of an element without material is in no group of
\* joined_paths, stays in the tree and has its GUID in the class of no
\* merged group.
C25_NoMaterialNeverMerged ==
    \A el \in Range(m_before) :
        el.material.is_a = "None" =>
            /\ \A k \in 1..Len(joined_paths) : el.guid \notin Range(joined_paths[k].els)
            /\ \E f \in Range(m_root) : f.guid = el.guid
            /\ \A g \in MergedIn(m_root) : el.guid \notin g.tokens

\* The sub-paths of a fragment with more than two points whose first and
\* last point are equal after rounding to one decimal place.
ClosedSubPaths(el) ==
    SelectSeq(el.paths,
              LAMBDA sp : /\ Len(sp.pts) > 2
                          /\ Round1(sp.pts[1][1]) = Round1(sp.pts[Len(sp.pts)][1])
                          /\ Round1(sp.pts[1][2]) = Round1(sp.pts[Len(sp.pts)][2]))

\* C26: the merge goes through the fragments of every group; a fragment
\* of the group is taken out of the tree exactly if it has such a closed
\* sub-path, and the group has one polygon for each of them.
C26_ClosedRingsRemovedAndCollected ==
    /\ m_pc # "polygon raised"
    /\ m_pc = "collected" =>
          LET els == joined_paths[m_group].els
          IN /\ \A g \in Range(els) :
                    (\A f \in Range(m_root) : f.guid # g)
                        <=> ClosedSubPaths(Annotated(g)) # <<>>
             /\ Len(polygons)
                    = Len(Concat([j \in 1..Len(els) |-> ClosedSubPaths(Annotated(els[j]))]))

(***************************************************************************)
(* generate_underlay, generate_linework, generate_annotation: the cache    *)
(* documents <drawing-name>-<layer-kind>.svg.                              *)
(***************************************************************************)
\* Number of times a layer is generated.
MaxGenerations == 2

LayerKinds == {"underlay", "linework", "annotation"}

\* No call of a generate method yet.
NoGenerate == [kind |-> "none", before |-> 0, after |-> 0, returned |-> "nothing"]

\* The drawing's settings, and no cache document.
LayerInit ==
    /\ OneModel
    /\ GenerateIdle
    /\ MergeIdle
    /\ PurgeIdle
    /\ CombineIdle
    /\ hash_seed = 0
    /\ first_run = [results |-> <<>>, root |-> <<>>, done |-> FALSE]
    /\ has_layer \in [LayerKinds -> BOOLEAN]
    /\ should_use_cache \in [LayerKinds -> BOOLEAN]
    /\ cache_document = [k \in LayerKinds |-> 0]
    /\ last_generate = NoGenerate
    /\ ToleranceIdle
    /\ ContainerIdle
    /\ SheetIdle

\* The method returns None: the layer is not enabled.
ReturnNone(kind) ==
    /\ last_generate' = [kind |-> kind, before |-> cache_document[kind],
                         after |-> cache_document[kind], returned |-> "None"]
    /\ UNCHANGED cache_document

\* The method returns the path of the cache document that is there.
ReturnCached(kind) ==
    /\ last_generate' = [kind |-> kind, before |-> cache_document[kind],
                         after |-> cache_document[kind], returned |-> "svg_path"]
    /\ UNCHANGED cache_document

\* The method generates the layer, writes the cache document and returns
\* its path.
Regenerate(kind) ==
    /\ cache_document[kind] < MaxGenerations
    /\ cache_document' = [cache_document EXCEPT ![kind] = @ + 1]
    /\ last_generate' = [kind |-> kind, before |-> cache_document[kind],
                         after |-> cache_document[kind] + 1, returned |-> "svg_path"]

\* Lines 279-319: no test of the cache document, the underlay is rendered
\* and written whenever it is enabled.
generate_underlay ==
    /\ IF ~has_layer["underlay"] THEN ReturnNone("underlay")
       ELSE Regenerate("underlay")
    /\ UNCHANGED <<generate_vars, merge_vars, purge_vars, combine_vars, hash_seed, first_run,
                   tolerance_vars, container_vars, sheet_vars, has_layer,
                   should_use_cache>>

\* Lines 321-497: the early returns of generate_linework, and the
\* extraction in one step.
generate_linework ==
    /\ IF ~has_layer["linework"] THEN ReturnNone("linework")
       ELSE IF cache_document["linework"] > 0 /\ should_use_cache["linework"]
            THEN ReturnCached("linework")
            ELSE Regenerate("linework")
    /\ UNCHANGED <<generate_vars, merge_vars, purge_vars, combine_vars, hash_seed, first_run,
                   tolerance_vars, container_vars, sheet_vars, has_layer,
                   should_use_cache>>

\* Lines 608-630.
generate_annotation ==
    /\ IF ~has_layer["annotation"] THEN ReturnNone("annotation")
       ELSE IF cache_document["annotation"] > 0 /\ should_use_cache["annotation"]
            THEN ReturnCached("annotation")
            ELSE Regenerate("annotation")
    /\ UNCHANGED <<generate_vars, merge_vars, purge_vars, combine_vars, hash_seed, first_run,
                   tolerance_vars, container_vars, sheet_vars, has_layer,
                   should_use_cache>>

LayerNext ==
    \/ generate_underlay
    \/ generate_linework
    \/ generate_annotation

LayerSpec == LayerInit /\ [][LayerNext]_vars

\* C23: a call for a layer that is enabled, whose use-cache flag is set
\* and whose cache document is there returns the path and leaves the
\* document as it is; any other call for an enabled layer writes the
\* document anew.
C23_CachedLayerNotRegenerated ==
    LET g == last_generate
    IN (g.kind # "none" /\ has_layer[g.kind]) =>
          IF should_use_cache[g.kind] /\ g.before > 0
          THEN g.returned = "svg_path" /\ g.after = g.before
          ELSE g.returned = "svg_path" /\ g.after # g.before

(***************************************************************************)
(* The post-processing of generate_linework, run twice on the same output  *)
(* of the serialiser.                                                      *)
(***************************************************************************)
\* The fragments the two runs are checked on: two walls of one material
\* side by side, a railing drawn as an open line, a beam whose ring
\* crosses itself and a plate whose ring has three coordinates.
RerunChoices == <<FragmentChoices[1], FragmentChoices[2], FragmentChoices[5],
                  FragmentChoices[9], FragmentChoices[11]>>

RerunTrees ==
    {[n \in 1..NumFragments |-> SourceFragment(n, RerunChoices[f[n]])] :
        f \in [1..NumFragments -> 1..Len(RerunChoices)]}

\* Lines 487-491 of the first run, in a process with some hash seed.
RerunInit ==
    /\ OneModel
    /\ GenerateIdle
    /\ PurgeIdle
    /\ CombineIdle
    /\ LayerIdle
    /\ ToleranceIdle
    /\ ContainerIdle
    /\ SheetIdle
    /\ hash_seed \in HashSeeds
    /\ m_root \in RerunTrees
    /\ first_run = [results |-> m_root, root |-> <<>>, done |-> FALSE]
    /\ m_before = <<>>
    /\ m_pc = "post processing"
    /\ joined_paths = <<>>
    /\ m_group = 0
    /\ polygons = <<>>
    /\ classes = {}
    /\ merged_polygons = <<>>

\* The operator is run again, in this process or in a new one: nothing
\* was invalidated and the cache is as it was, so the serialiser gives
\* the same output (lines 487-491 of the second run).
Rerun ==
    /\ m_pc = "done"
    /\ ~first_run.done
    /\ first_run' = [first_run EXCEPT !.root = m_root, !.done = TRUE]
    /\ hash_seed' \in HashSeeds
    /\ m_root' = first_run.results
    /\ m_before' = <<>>
    /\ m_pc' = "post processing"
    /\ joined_paths' = <<>>
    /\ m_group' = 0
    /\ polygons' = <<>>
    /\ classes' = {}
    /\ merged_polygons' = <<>>
    /\ UNCHANGED <<generate_vars, purge_vars, combine_vars, layer_vars, tolerance_vars,
                   container_vars, sheet_vars>>

RerunNext ==
    \/ MergeNext
    \/ Rerun

RerunSpec == RerunInit /\ [][RerunNext]_vars

\* C24: the second of two runs on the same output of the serialiser
\* leaves the same tree as the first: the same fragments in the same
\* order, each with the same class tokens in the same order.
C24_SecondRunIdentical ==
    (first_run.done /\ m_pc = "done") => m_root = first_run.root

(***************************************************************************)
(* Spatial.get_converted_tolerance and its use in                          *)
(* get_union_shape_from_selected_objects (tool/spatial.py). Lengths are    *)
(* in thousandths of their unit.                                           *)
(***************************************************************************)
\* The largest tolerance, in thousandths of a metre, of a direct call.
MaxTolerance == 10

\* Line 278: tolerance=0.03; line 280: tolerance=3.
buffer_tolerance == 30
min_area_tolerance == 3000

\* The Prefix of the length unit of the project; "None" is the plain metre.
Prefixes == {"None", "DECI", "CENTI", "MILLI"}

\* ifcopenshell.util.unit.convert(value, None, "METRE", to_prefix, "METRE")
convert(value, to_prefix) ==
    CASE to_prefix = "None" -> value
      [] to_prefix = "DECI" -> value * 10
      [] to_prefix = "CENTI" -> value * 100
      [] to_prefix = "MILLI" -> value * 1000

\* Lines 321-333: the conversion is computed and the argument returned.
get_converted_tolerance(tolerance) ==
    LET converted_tolerance == convert(tolerance, project_unit)
    IN tolerance

ToleranceInit ==
    /\ OneModel
    /\ GenerateIdle
    /\ MergeIdle
    /\ PurgeIdle
    /\ CombineIdle
    /\ hash_seed = 0
    /\ first_run = [results |-> <<>>, root |-> <<>>, done |-> FALSE]
    /\ LayerIdle
    /\ ContainerIdle
    /\ SheetIdle
    /\ project_unit \in Prefixes
    /\ tolerance_call = [tolerance |-> 0, returned |-> 0]
    /\ buffer_distance = 0
    /\ union_min_area = 0

\* A call of get_converted_tolerance.
CallGetConvertedTolerance(t) ==
    /\ tolerance_call' = [tolerance |-> t, returned |-> get_converted_tolerance(t)]
    /\ UNCHANGED <<generate_vars, merge_vars, purge_vars, combine_vars, hash_seed, first_run,
                   container_vars, sheet_vars, layer_vars, project_unit, buffer_distance, union_min_area>>

\* Lines 278-279: the union is buffered by the converted tolerance.
BufferUnion ==
    /\ buffer_distance = 0
    /\ buffer_distance' = get_converted_tolerance(buffer_tolerance)
    /\ tolerance_call' = [tolerance |-> buffer_tolerance, returned |-> buffer_distance']
    /\ UNCHANGED <<generate_vars, merge_vars, purge_vars, combine_vars, hash_seed, first_run,
                   container_vars, sheet_vars, layer_vars, project_unit, union_min_area>>

\* Line 280: the holes are purged with the converted minimum area.
PurgeUnion ==
    /\ buffer_distance # 0
    /\ union_min_area = 0
    /\ union_min_area' = get_converted_tolerance(min_area_tolerance)
    /\ tolerance_call' = [tolerance |-> min_area_tolerance, returned |-> union_min_area']
    /\ UNCHANGED <<generate_vars, merge_vars, purge_vars, combine_vars, hash_seed, first_run,
                   container_vars, sheet_vars, layer_vars, project_unit, buffer_distance>>

ToleranceNext ==
    \/ \E t \in 1..MaxTolerance : CallGetConvertedTolerance(t)
    \/ BufferUnion
    \/ PurgeUnion

ToleranceSpec == ToleranceInit /\ [][ToleranceNext]_vars

\* C27: get_converted_tolerance returns the tolerance converted into the
\* length unit of the project, which differs from the tolerance unless the
\* unit is the plain metre, and the buffer distance and the minimum area
\* of get_union_shape_from_selected_objects are the converted values.
C27_ToleranceConverted ==
    /\ tolerance_call.tolerance # 0 =>
          /\ tolerance_call.returned = convert(tolerance_call.tolerance, project_unit)
          /\ project_unit # "None" => tolerance_call.returned # tolerance_call.tolerance
    /\ buffer_distance # 0 => buffer_distance = convert(buffer_tolerance, project_unit)
    /\ union_min_area # 0 => union_min_area = convert(min_area_tolerance, project_unit)

(***************************************************************************)
(* Spatial.contract_container, expand_container (tool/spatial.py).         *)
(***************************************************************************)
\* Number of containers of the project.
NumContainers == 3
\* Number of ids the stored list of contracted containers holds at most.
MaxContracted == 3

\* Line 229: new.is_expanded of the item load_container_manager builds.
is_expanded(container) == container \notin Range(contracted_containers)

\* list.remove(x): the first occurrence of x is taken out.
RECURSIVE Remove(_, _)
Remove(list, x) ==
    IF Head(list) = x THEN Tail(list) ELSE <<Head(list)>> \o Remove(Tail(list), x)

ContainerInit ==
    /\ OneModel
    /\ GenerateIdle
    /\ MergeIdle
    /\ PurgeIdle
    /\ CombineIdle
    /\ hash_seed = 0
    /\ first_run = [results |-> <<>>, root |-> <<>>, done |-> FALSE]
    /\ LayerIdle
    /\ ToleranceIdle
    /\ SheetIdle
    /\ contracted_containers = <<>>
    /\ container_call = [op |-> "none", container |-> 0, before |-> <<>>,
                         outcome |-> "nothing"]

\* Lines 258-262: the id is appended to the stored list.
contract_container(container) ==
    /\ Len(contracted_containers) < MaxContracted
    /\ contracted_containers' = Append(contracted_containers, container)
    /\ container_call' = [op |-> "contract", container |-> container,
                          before |-> contracted_containers, outcome |-> "returned"]
    /\ UNCHANGED <<generate_vars, merge_vars, purge_vars, combine_vars, hash_seed, first_run,
                   layer_vars, tolerance_vars, sheet_vars>>

\* Lines 265-269: list.remove takes the first occurrence of the id out of
\* the stored list and raises ValueError if there is none.
expand_container(container) ==
    /\ IF container \in Range(contracted_containers)
       THEN /\ contracted_containers' = Remove(contracted_containers, container)
            /\ container_call' = [op |-> "expand", container |-> container,
                                  before |-> contracted_containers,
                                  outcome |-> "returned"]
       ELSE /\ container_call' = [op |-> "expand", container |-> container,
                                  before |-> contracted_containers,
                                  outcome |-> "raised"]
            /\ UNCHANGED contracted_containers
    /\ UNCHANGED <<generate_vars, merge_vars, purge_vars, combine_vars, hash_seed, first_run,
                   layer_vars, tolerance_vars, sheet_vars>>

ContainerNext ==
    \/ \E c \in 1..NumContainers : contract_container(c)
    \/ \E c \in 1..NumContainers : expand_container(c)

ContainerSpec == ContainerInit /\ [][ContainerNext]_vars

\* C29: a call of expand_container returns, the container is expanded
\* after it, and the stored list is as before if the container was not
\* contracted.
C29_ExpandedAfterExpand ==
    container_call.op = "expand" =>
        /\ container_call.outcome = "returned"
        /\ is_expanded(container_call.container)
        /\ container_call.container \notin Range(container_call.before)
              => contracted_containers = container_call.before

(***************************************************************************)
(* AddDrawingToSheet, AddScheduleToSheet, RemoveDrawingFromSheet: the      *)
(* references of one sheet.                                                *)
(***************************************************************************)
\* Number of drawings, and of schedules, of the project.
NumDocuments == 2

\* Lines 774, 1349: the number of the new reference (written with str, which
\* gives different texts for different numbers).
NextIdentification ==
    Len(SelectSeq(references, LAMBDA r : r.Description \in {"DRAWING", "SCHEDULE"})) + 1

SheetInit ==
    /\ OneModel
    /\ GenerateIdle
    /\ MergeIdle
    /\ PurgeIdle
    /\ CombineIdle
    /\ hash_seed = 0
    /\ first_run = [results |-> <<>>, root |-> <<>>, done |-> FALSE]
    /\ LayerIdle
    /\ ToleranceIdle
    /\ ContainerIdle
    /\ references = <<>>

\* Lines 747-784: nothing is done if the sheet has a reference to the
\* drawing or the drawing was not generated; else a reference is added.
AddDrawingToSheet(drawing, generated) ==
    /\ references' =
          IF \E i \in 1..Len(references) : references[i].Location = <<"drawing", drawing>>
          THEN references
          ELSE IF ~generated THEN references
          ELSE Append(references, [Identification |-> NextIdentification,
                                   Location |-> <<"drawing", drawing>>,
                                   Description |-> "DRAWING"])
    /\ UNCHANGED <<generate_vars, merge_vars, purge_vars, combine_vars, hash_seed, first_run,
                   layer_vars, tolerance_vars, container_vars>>

\* Lines 1319-1360: the same for a schedule.
AddScheduleToSheet(schedule, generated) ==
    /\ references' =
          IF \E i \in 1..Len(references) : references[i].Location = <<"schedule", schedule>>
          THEN references
          ELSE IF ~generated THEN references
          ELSE Append(references, [Identification |-> NextIdentification,
                                   Location |-> <<"schedule", schedule>>,
                                   Description |-> "SCHEDULE"])
    /\ UNCHANGED <<generate_vars, merge_vars, purge_vars, combine_vars, hash_seed, first_run,
                   layer_vars, tolerance_vars, container_vars>>

\* Lines 793-803: the reference is removed from the sheet.
RemoveDrawingFromSheet(reference) ==
    /\ reference \in 1..Len(references)
    /\ references' = [i \in 1..(Len(references) - 1) |->
                         IF i < reference THEN references[i] ELSE references[i + 1]]
    /\ UNCHANGED <<generate_vars, merge_vars, purge_vars, combine_vars, hash_seed, first_run,
                   layer_vars, tolerance_vars, container_vars>>

SheetNext ==
    \/ \E d \in 1..NumDocuments, g \in BOOLEAN : AddDrawingToSheet(d, g)
    \/ \E s \in 1..NumDocuments, g \in BOOLEAN : AddScheduleToSheet(s, g)
    \/ \E r \in 1..(2 * NumDocuments) : RemoveDrawingFromSheet(r)

SheetSpec == SheetInit /\ [][SheetNext]_vars

\* C30: no two DRAWING or SCHEDULE references of the sheet have the same
\* identification.
C30_IdentificationsDistinct ==
    \A i, j \in 1..Len(references) :
        (i # j /\ references[i].Description \in {"DRAWING", "SCHEDULE"}
         /\ references[j].Description \in {"DRAWING", "SCHEDULE"})
            => references[i].Identification # references[j].Identification

====
